---- MODULE Spec2Model ----
(***************************************************************************)
(* Model of the rz-bindgen binding model builder and emitter:              *)
(*   src/src/module.py        Module (registry, type namer, emission)      *)
(*   src/src/module_func.py   ModuleFunc (function emitter)                *)
(*   src/src/module_class.py  ModuleClass (class builder)                  *)
(* Text is modelled by strings, a writer's buffer by a sequence of lines   *)
(* [ind, text], a Python set by a set, a dict by a sequence of pairs with  *)
(* distinct keys (insertion order is iteration order).                     *)
(***************************************************************************)
EXTENDS Integers, Sequences, FiniteSets, TLC

VARIABLES
    headers,           \* Module.headers: set of registered header names
    used,              \* Header.used, per header: set of consumed function names
    generics,          \* Module.generics: ordered, one record per ModuleGeneric
    generic_mappings,  \* Module.generic_mappings: set of <<struct name, generic name>>
    enable_sphinx,     \* Module.enable_sphinx: the documentation is generated too
    classes,           \* Module.classes: sequence of ModuleClass records
    enums,             \* Module.enums: sequence of ModuleEnum records
    directors,         \* Module.directors: sequence of ModuleDirector records
    phase,             \* "register" | "written" | "aborted"
    error,             \* the exception that aborted the run ("" when none)
    output,            \* the interface text written by Module.write
    output_rerun,      \* the text a second run over the same input writes
    calls,             \* the number of builder calls the driver has made
    last               \* the builder call that was made last (driver position)

vars == <<headers, used, generics, generic_mappings, enable_sphinx, classes, enums,
          directors, phase, error, output, output_rerun, calls, last>>

-----------------------------------------------------------------------------
(* Bounds of the model *)

MaxCalls == 3

-----------------------------------------------------------------------------
(* Python string and sequence helpers *)

startswith(s, p) == Len(s) >= Len(p) /\ SubSeq(s, 1, Len(p)) = p

endswith(s, p) == Len(s) >= Len(p) /\ SubSeq(s, Len(s) - Len(p) + 1, Len(s)) = p

\* s[a:] for a >= 0
SliceFrom(s, a) == SubSeq(s, a + 1, Len(s))

\* s[a:-b] for a, b >= 0
SliceMid(s, a, b) == SubSeq(s, a + 1, Len(s) - b)

\* s[-k] for k >= 1; only defined when Len(s) >= k (IndexError otherwise)
CharFromEnd(s, k) == SubSeq(s, Len(s) - k + 1, Len(s) - k + 1)

RECURSIVE join(_, _)
join(sep, strs) ==
    IF Len(strs) = 0 THEN ""
    ELSE IF Len(strs) = 1 THEN strs[1]
    ELSE strs[1] \o sep \o join(sep, Tail(strs))

Range(s) == {s[i] : i \in 1..Len(s)}

RECURSIVE SelectIdx(_, _)
\* the subsequence of s at the indices in idx, in order
SelectIdx(s, idx) ==
    IF Len(s) = 0 THEN <<>>
    ELSE SelectIdx(SubSeq(s, 1, Len(s) - 1), idx)
         \o (IF Len(s) \in idx THEN << s[Len(s)] >> ELSE <<>>)

\* a line of a writer at an indentation level
Line(ind, text) == [ind |-> ind, text |-> text]

\* splice a buffered writer into a writer that is at indentation level ind
Splice(ind, lines) == [i \in 1..Len(lines) |-> Line(ind + lines[i].ind, lines[i].text)]

-----------------------------------------------------------------------------
(* Types of the declaration model (clang Type) *)

VoidT == [kind |-> "VOID", spelling |-> "void", decl |-> "", const |-> FALSE]
IntT == [kind |-> "INT", spelling |-> "int", decl |-> "", const |-> FALSE]
BoolT == [kind |-> "BOOL", spelling |-> "_Bool", decl |-> "", const |-> FALSE]
CharT == [kind |-> "CHAR_S", spelling |-> "char", decl |-> "", const |-> FALSE]

\* a typedef of a struct: canonical declaration decl, spelled by the typedef name
Rec(spelling, decl) ==
    [kind |-> "TYPEDEF", spelling |-> spelling, decl |-> decl, const |-> FALSE]

Const(t) == [t EXCEPT !.const = TRUE, !.spelling = "const " \o t.spelling]

Ptr(t) == [kind |-> "POINTER", spelling |-> t.spelling \o " *", decl |-> "",
           const |-> FALSE, pointee |-> t]

Arr(t, n) == [kind |-> "CONSTANTARRAY", spelling |-> t.spelling \o "[" \o ToString(n) \o "]",
              decl |-> "", const |-> FALSE, element_type |-> t, element_count |-> n]

Fn(result, args) == [kind |-> "FUNCTIONPROTO", spelling |-> result.spelling \o " (" \o
                         join(", ", [i \in 1..Len(args) |-> args[i].spelling]) \o ")",
                     decl |-> "", const |-> FALSE, result |-> result, args |-> args]

BoxT == Rec("Box", "box_t")
ItemT == Rec("Item", "item_t")
ListT == Rec("RzList", "rz_list_t")
VectorT == Rec("RzVector", "rz_vector_t")

-----------------------------------------------------------------------------
(* The declaration set: the parsed headers the driver works on *)

BoxH == "rz_box.h"
ListH == "rz_list.h"
HeaderNames == {BoxH, ListH}

\* the generic containers a driver can register: struct, pointer flag, header
GenericDecls ==
    [RzList |-> [struct |-> "rz_list_t", pointer |-> TRUE, header |-> ListH],
     RzVector |-> [struct |-> "rz_vector_t", pointer |-> FALSE, header |-> ListH]]

GenericNames == DOMAIN GenericDecls

GenericType(g) == IF g = "RzList" THEN ListT ELSE VectorT

\* the first token between a declaration's type reference and its name
Tokens ==
    << "/*<char *>*/", "/*<const char *>*/", "/*<item_t>*/", "/*<item_t*>*/",
       "/*<>*/", "/*<*>*/", "/*< item_t * >*/", "*" >>

Param(h, f, spelling, type, attrs, token) ==
    [kind |-> "PARM_DECL", spelling |-> spelling, type |-> type, attrs |-> attrs,
     token |-> token, location |-> h \o ":" \o f \o ":" \o spelling]

Func(h, spelling, attrs, args, result_type, token) ==
    [kind |-> "FUNCTION_DECL", spelling |-> spelling, attrs |-> attrs, args |-> args,
     result_type |-> result_type, token |-> token, location |-> h \o ":" \o spelling]

Field(s, spelling, type, token) ==
    [kind |-> "FIELD_DECL", spelling |-> spelling, type |-> type, token |-> token,
     location |-> s \o "::" \o spelling]

\* the name of the function whose parameter "items" is a pointer to generic g
\* annotated by Tokens[k]
ProbeName(g, k) == "probe_" \o g \o "_" \o ToString(k)

\* one unexported function per generic and annotation token
ProbeFuncs(g) ==
    [k \in 1..Len(Tokens) |->
        Func(BoxH, ProbeName(g, k), {},
             << Param(BoxH, ProbeName(g, k), "items", Ptr(GenericType(g)),
                      {"RZ_NONNULL"}, Tokens[k]) >>, VoidT, ProbeName(g, k))]

\* Header.funcs of rz_box.h, in declaration order
BoxFuncs ==
    << Func(BoxH, "box_new", {"RZ_API"},
            << Param(BoxH, "box_new", "size", IntT, {}, "size") >>, Ptr(BoxT), "*"),
       Func(BoxH, "box_free", {"RZ_API"},
            << Param(BoxH, "box_free", "box", Ptr(BoxT), {}, "*") >>, VoidT, "box_free"),
       Func(BoxH, "box_resize", {"RZ_API"},
            << Param(BoxH, "box_resize", "box", Ptr(BoxT), {"RZ_NONNULL"}, "*"),
               Param(BoxH, "box_resize", "n", Ptr(IntT), {"RZ_NONNULL"}, "*"),
               Param(BoxH, "box_resize", "flags", IntT, {}, "flags") >>, BoolT, "box_resize"),
       Func(BoxH, "box_cmp", {"RZ_API", "RZ_DEPRECATE"},
            << Param(BoxH, "box_cmp", "self", Ptr(Const(BoxT)), {"RZ_NONNULL"}, "*"),
               Param(BoxH, "box_cmp", "other", Ptr(Const(BoxT)), {"RZ_NONNULL"}, "*") >>,
            IntT, "box_cmp"),
       Func(BoxH, "box_set_items", {"RZ_API"},
            << Param(BoxH, "box_set_items", "box", Ptr(BoxT), {}, "*"),
               Param(BoxH, "box_set_items", "items", Ptr(ListT),
                     {"RZ_NONNULL"}, "/*<item_t *>*/") >>, VoidT, "box_set_items"),
       Func(BoxH, "box_items", {"RZ_API"},
            << Param(BoxH, "box_items", "box", Ptr(BoxT), {}, "*") >>,
            Ptr(Const(ListT)), "/*<char *>*/"),
       Func(BoxH, "box_internal", {},
            << Param(BoxH, "box_internal", "box", Ptr(BoxT), {}, "*") >>, VoidT,
            "box_internal"),
       Func(BoxH, "item_owner", {"RZ_API"},
            << Param(BoxH, "item_owner", "item", Ptr(ItemT), {}, "*") >>, Ptr(BoxT), "*"),
       Func(BoxH, "item_list", {"RZ_API"},
            << Param(BoxH, "item_list", "items", Ptr(ListT), {}, "*") >>, VoidT,
            "item_list") >>
    \o ProbeFuncs("RzList") \o ProbeFuncs("RzVector")
    \o << Func(BoxH, "box_take", {},
               << Param(BoxH, "box_take", "box", Ptr(BoxT), {}, "*") >>, Ptr(ListT), "*") >>

\* Header.funcs of rz_list.h
ListFuncs ==
    << Func(ListH, "rz_list_length", {"RZ_API"},
            << Param(ListH, "rz_list_length", "list", Ptr(Const(ListT)), {"RZ_NONNULL"}, "*") >>,
            IntT, "rz_list_length"),
       Func(ListH, "rz_list_append", {"RZ_API"},
            << Param(ListH, "rz_list_append", "list", Ptr(ListT), {"RZ_NONNULL"}, "*"),
               Param(ListH, "rz_list_append", "data", Ptr(VoidT), {}, "*") >>,
            Ptr(VoidT), "*"),
       Func(ListH, "rz_list_join", {"RZ_API"},
            << Param(ListH, "rz_list_join", "list1", Ptr(ListT), {"RZ_NONNULL"}, "*"),
               Param(ListH, "rz_list_join", "list2", Ptr(ListT), {"RZ_NONNULL"}, "*") >>,
            BoolT, "rz_list_join") >>

HeaderFuncs(h) == IF h = BoxH THEN BoxFuncs ELSE ListFuncs

FuncNames(h) == {HeaderFuncs(h)[i].spelling : i \in 1..Len(HeaderFuncs(h))}

\* header.funcs[name]; only defined when name \in FuncNames(h) (KeyError otherwise)
FuncOf(h, name) ==
    HeaderFuncs(h)[CHOOSE i \in 1..Len(HeaderFuncs(h)) : HeaderFuncs(h)[i].spelling = name]

\* a child of a struct declaration that is not a field
Child(kind, s) == [kind |-> kind, spelling |-> "", location |-> s \o "::(" \o kind \o ")"]

\* header.structs[name].get_children(), in declaration order
StructChildren(name) ==
    IF name = "box_t" THEN
        << Field("box_t", "size", IntT, "size"),
           Field("box_t", "internal", Ptr(VoidT), "*"),
           Child("UNION_DECL", "box_t"),
           Field("box_t", "items", Ptr(ListT), "/*<char *>*/"),
           Field("box_t", "enabled", BoolT, "enabled"),
           Field("box_t", "tag", Arr(CharT, 8), "tag"),
           Field("box_t", "on_resize", Ptr(Fn(VoidT, <<Ptr(BoxT), BoolT>>)), "(") >>
    ELSE IF name = "item_t" THEN
        << Field("item_t", "id", IntT, "id"),
           Field("item_t", "owner", Ptr(BoxT), "*") >>
    ELSE IF name = "bag_t" THEN
        << Field("bag_t", "count", IntT, "count"),
           Field("bag_t", "items", Ptr(ListT), "*") >>
    ELSE IF name = "pair_t" THEN
        << Field("pair_t", "x", IntT, "x"),
           Field("pair_t", "x", IntT, "x") >>
    ELSE
        << Field("box_plugin_t", "open", Ptr(Fn(BoolT, <<Ptr(BoxT)>>)), "("),
           Field("box_plugin_t", "close", Ptr(Fn(VoidT, <<Ptr(BoxT)>>)), "(") >>

StructNames == {"box_t", "item_t", "bag_t", "pair_t", "box_plugin_t"}

\* the typedefs of the structs: typedef struct box_t Box; and so on
TypedefNames == {"Box", "Item", "BoxPlugin"}

\* typedef_cursor.underlying_typedef_type.get_declaration().spelling
TypedefStruct(typedef) ==
    IF typedef = "Box" THEN "box_t"
    ELSE IF typedef = "Item" THEN "item_t" ELSE "box_plugin_t"

\* the enumeration constants a header declares, in declaration order
EnumConstants(h) ==
    IF h = BoxH THEN << "BOX_MODE_RD", "BOX_MODE_WR", "BOX_FLAG_NONE" >> ELSE <<>>
-----------------------------------------------------------------------------
(* Generic registry and type namer (module.py) *)

GenericIdx(gens, g) == CHOOSE i \in 1..Len(gens) : gens[i].name = g

Specializations(gens, g) ==
    IF \E i \in 1..Len(gens) : gens[i].name = g
    THEN gens[GenericIdx(gens, g)].specializations ELSE {}

RECURSIVE StripPointers(_)
StripPointers(type_) ==
    IF type_.kind = "POINTER" THEN StripPointers(type_.pointee) ELSE type_

\* the generic a struct name is mapped to, "" for none
MappedGeneric(maps, struct_name) ==
    IF \E m \in maps : m[1] = struct_name
    THEN (CHOOSE m \in maps : m[1] = struct_name)[2]
    ELSE ""

\* Module.get_generic_name: "void", a generic's name, or "" for None
get_generic_name(maps, type_) ==
    IF StripPointers(type_).kind = "VOID" THEN "void"
    ELSE MappedGeneric(maps, StripPointers(type_).decl)

\* a use that leaves the specialization set as it is
AddSpecializationNot(gens, g, name) == gens

\* a use that replaces the specialization set by the one name
AddSpecializationOnly(gens, g, name) ==
    [gens EXCEPT ![GenericIdx(gens, g)].specializations = {name}]

\* set.add of generic.specializations
AddSpecialization(gens, g, name) ==
    [gens EXCEPT ![GenericIdx(gens, g)].specializations = @ \cup {name}]

\* name[len("const "):] when name starts with "const "
StripConst(name) ==
    IF startswith(name, "const ") THEN SliceFrom(name, Len("const ")) ELSE name

\* the annotation's text: token[3:-3] without a leading "const "
AnnotationName(token) == StripConst(SliceMid(token, 3, 3))

\* the checks a pointer-based generic makes of its annotation text
PointerCheck(name) ==
    IF Len(name) < 1 THEN "IndexError"
    ELSE IF CharFromEnd(name, 1) # "*" THEN "PointerMismatch"
    ELSE IF Len(name) < 2 THEN "IndexError"
    ELSE IF CharFromEnd(name, 2) # " " THEN "PointerMismatch"
    ELSE ""

\* the result of a resolution: an error at a location, or the name and the registry
Resolved(err, at, name, gens) == [err |-> err, at |-> at, name |-> name, gens |-> gens]

\* module.py 101-120: the generic's pointer check, the stripping, the add
Specialize(gens, cursor, generic_name, name, pointer) ==
    IF pointer /\ PointerCheck(name) # ""
        THEN Resolved(PointerCheck(name), cursor.location, "", gens)
    ELSE IF pointer
        THEN Resolved("", "", SliceMid(name, 0, 2),
                      AddSpecialization(gens, generic_name, SliceMid(name, 0, 2)))
    ELSE Resolved("", "", name, AddSpecialization(gens, generic_name, name))

\* the resolution without the test of the token
AnnotationUnchecked(gens, cursor, generic_name) ==
    Specialize(gens, cursor, generic_name, AnnotationName(cursor.token),
               gens[GenericIdx(gens, generic_name)].pointer)

\* Module.add_generic_specialization
add_generic_specialization(gens, cursor, generic_name) ==
    IF ~startswith(cursor.token, "/*<") \/ ~endswith(cursor.token, ">*/")
        THEN Resolved("MissingAnnotation", cursor.location, "", gens)
    ELSE Specialize(gens, cursor, generic_name, AnnotationName(cursor.token),
                    gens[GenericIdx(gens, generic_name)].pointer)

RECURSIVE Unravel(_, _, _)
\* the "unravel pointers" loop of stringify_decl: [type, pointers]
Unravel(type_, pointers, typed) ==
    IF type_.kind # "POINTER" THEN [type |-> type_, pointers |-> pointers]
    ELSE Unravel(type_.pointee,
                 IF typed /\ type_.pointee.const THEN "const *" \o pointers
                 ELSE "*" \o pointers,
                 typed)

\* the argument types of a function pointer, _Bool spelled bool
ProtoArgs(args) ==
    join(", ", [i \in 1..Len(args) |->
                  IF args[i].kind = "BOOL" THEN "bool" ELSE args[i].spelling])

\* the declarator of an array or function pointer (module.py 165-178)
DeclaratorName(t, name) ==
    IF t.kind = "CONSTANTARRAY" THEN name \o "[" \o ToString(t.element_count) \o "]"
    ELSE IF t.kind = "INCOMPLETEARRAY" THEN name \o "[]"
    ELSE IF t.kind = "FUNCTIONPROTO" THEN "(" \o name \o ")(" \o ProtoArgs(t.args) \o ")"
    ELSE name

\* the type left of the declarator (module.py 165-178)
DeclaratorType(t) ==
    IF t.kind \in {"CONSTANTARRAY", "INCOMPLETEARRAY"} THEN t.element_type
    ELSE IF t.kind = "FUNCTIONPROTO" THEN t.result
    ELSE t

\* module.py 180-183
FormatShaped(t, name, type_name) ==
    (IF t.kind = "BOOL" THEN "bool" ELSE IF type_name # "" THEN type_name ELSE t.spelling)
    \o " " \o name

FormatUnraveled(u, name, type_name) ==
    FormatShaped(DeclaratorType(u.type), DeclaratorName(u.type, u.pointers \o name), type_name)

\* module.py 154-183: the declaration string of a type under a type name ("" for None)
FormatDecl(type_, name, type_name) ==
    FormatUnraveled(Unravel(type_, IF type_name # "" /\ type_.const THEN "const " ELSE "",
                            type_name # ""),
                    name, type_name)

\* the type name of a use inside a generic template (module.py 144-149)
ErasedTypeName(generic_name, generic) ==
    IF generic_name = "void" THEN (IF generic THEN "TYPE" ELSE "")
    ELSE IF generic_name # "" /\ generic THEN generic_name \o "_##TYPE"
    ELSE ""

\* the generic's name and the specialization run together
ConcreteTypeNameGlued(g, s) == g \o s

\* the type name of a concrete use of generic g with specialization s (module.py 152)
ConcreteTypeName(g, s) == g \o "_" \o s

\* the result of the type namer: an error at a location, or the text and the registry
Named(err, at, text, gens) == [err |-> err, at |-> at, text |-> text, gens |-> gens]

\* module.py 151-183 for a concrete use, sp being the resolution's result
StringifyConcrete(type_, name, generic_name, sp) ==
    IF sp.err # "" THEN Named(sp.err, sp.at, "", sp.gens)
    ELSE Named("", "", FormatDecl(type_, name, ConcreteTypeName(generic_name, sp.name)),
               sp.gens)

StringifyNamed(gens, cursor, type_, name, generic, generic_name) ==
    IF generic_name # "void" /\ generic_name # "" /\ ~generic
        THEN StringifyConcrete(type_, name, generic_name,
                               add_generic_specialization(gens, cursor, generic_name))
    ELSE Named("", "", FormatDecl(type_, name, ErasedTypeName(generic_name, generic)), gens)

\* Module.stringify_decl; name is <<>> for None
stringify_decl(gens, maps, cursor, type_, name, generic) ==
    StringifyNamed(gens, cursor, type_, IF name # <<>> THEN name[1] ELSE cursor.spelling,
                   generic, get_generic_name(maps, type_))

\* module.py 204-241: the Python name of a type that is not a generic use;
\* "" stands for None
PlainTypePy(type_) ==
    IF type_.kind = "POINTER" /\ type_.pointee.kind \in {"SCHAR", "CHAR_S", "UCHAR", "CHAR_U"}
        THEN "str"
    ELSE IF type_.kind = "POINTER" /\ type_.pointee.kind = "TYPEDEF"
        THEN type_.pointee.spelling
    ELSE IF type_.kind = "TYPEDEF" THEN type_.spelling
    ELSE IF type_.kind = "BOOL" THEN "bool"
    ELSE IF type_.kind \in {"UCHAR", "CHAR_U", "USHORT", "UINT", "ULONG", "ULONGLONG",
                            "SCHAR", "CHAR_S", "SHORT", "INT", "LONG", "LONGLONG"}
        THEN "int"
    ELSE IF type_.kind = "VOID" THEN ""
    ELSE "\"" \o type_.spelling \o "\""

\* Module.stringify_type_py: a concrete use of a generic is resolved, and
\* recorded, again (module.py 194-202)
stringify_type_py(gens, maps, cursor, type_, generic) ==
    IF get_generic_name(maps, type_) = "void" /\ generic THEN Named("", "", "T", gens)
    ELSE IF get_generic_name(maps, type_) \notin {"void", ""} /\ generic
        THEN Named("", "", get_generic_name(maps, type_) \o "[T]", gens)
    ELSE IF get_generic_name(maps, type_) \notin {"void", ""}
        THEN LET sp == add_generic_specialization(gens, cursor, get_generic_name(maps, type_))
             IN  IF sp.err # "" THEN Named(sp.err, sp.at, "", sp.gens)
                 ELSE Named("", "", get_generic_name(maps, type_) \o "[" \o sp.name \o "]",
                            sp.gens)
    ELSE Named("", "", PlainTypePy(type_), gens)

\* a declaration and, when the documentation is generated, the Python type of
\* the same cursor right after it (module_func.py 80-104, module_class.py
\* 278-287); an error of the second keeps the text of the first
Declared(sphinx, maps, cursor, type_, generic, d) ==
    IF d.err # "" \/ ~sphinx THEN d
    ELSE LET py == stringify_type_py(d.gens, maps, cursor, type_, generic)
         IN  Named(py.err, py.at, d.text, py.gens)
-----------------------------------------------------------------------------
(* Function emitter (module_func.py) *)

\* a dict as a sequence of <<key, value>> pairs with distinct keys
DictKeys(d) == {d[i][1] : i \in 1..Len(d)}

DictGet(d, k) == d[CHOOSE i \in 1..Len(d) : d[i][1] = k][2]

\* the arguments the emitter works on: all but the receiver for these kinds
EmitterArgs(func, kind) ==
    IF kind \in {"DESTRUCTOR", "THIS"} THEN SubSeq(func.args, 2, Len(func.args))
    ELSE func.args

\* the parameter's own name passed on, self included
ArgInnerSpelling(arg) == arg.spelling

\* the identifier passed to the underlying function (module_func.py 79-89)
ArgInner(arg) == IF arg.spelling = "self" THEN "_self" ELSE arg.spelling

\* the parameter of the visible signature (module_func.py 82-94)
ArgOuter(arg, text, default_args) ==
    IF arg.spelling # "self" /\ arg.spelling \in DictKeys(default_args)
    THEN text \o " = " \o DictGet(default_args, arg.spelling)
    ELSE text

\* the result of the loop over the arguments
Args(err, at, gens, outer, inner) ==
    [err |-> err, at |-> at, gens |-> gens, outer |-> outer, inner |-> inner]

RECURSIVE ProcessArgs(_, _, _, _, _, _, _, _)
RECURSIVE ProcessArg(_, _, _, _, _, _, _, _)
\* the loop over args (module_func.py 77-97)
ProcessArgs(sphinx, gens, maps, args, generic_args, default_args, outer, inner) ==
    IF args = <<>> THEN Args("", "", gens, outer, inner)
    ELSE ProcessArg(sphinx, maps, args, generic_args, default_args, outer, inner,
                    Declared(sphinx, maps, Head(args), Head(args).type,
                             Head(args).spelling \in generic_args,
                             stringify_decl(gens, maps, Head(args), Head(args).type,
                                            IF Head(args).spelling = "self" THEN <<"_self">>
                                            ELSE <<>>,
                                            Head(args).spelling \in generic_args)))

\* one iteration, d being the argument's declaration
ProcessArg(sphinx, maps, args, generic_args, default_args, outer, inner, d) ==
    IF d.err # "" THEN Args(d.err, d.at, d.gens, outer, inner)
    ELSE ProcessArgs(sphinx, d.gens, maps, Tail(args), generic_args, default_args,
                     Append(outer, ArgOuter(Head(args), d.text, default_args)),
                     Append(inner, ArgInner(Head(args))))

\* the names the precondition block lists (module_func.py 174-178)
NonnullNames(sel) == [i \in 1..Len(sel) |-> sel[i].spelling]

\* every argument listed, attribute or not
ArgsAll(args) == [i \in 1..Len(args) |-> args[i].spelling]

ArgsNonnull(args) ==
    NonnullNames(SelectIdx(args, {i \in 1..Len(args) : "RZ_NONNULL" \in args[i].attrs}))

\* the precondition block (module_func.py 180-185)
Contract(name, args_outer_str, args_nonnull) ==
    IF args_nonnull = <<>> THEN <<>>
    ELSE << Line(0, "%contract " \o name \o "(" \o args_outer_str \o ") {"),
            Line(0, "require:") >>
         \o [i \in 1..Len(args_nonnull) |-> Line(1, args_nonnull[i] \o " != NULL;")]
         \o << Line(0, "}") >>

\* the first line of the wrapper (module_func.py 140-155)
WrapperHead(kind, name, decl, args_outer_str) ==
    IF kind = "CONSTRUCTOR" THEN name \o "(" \o args_outer_str \o ") {"
    ELSE IF kind = "DESTRUCTOR" THEN "~" \o name \o "(" \o args_outer_str \o ") {"
    ELSE IF kind = "THIS" THEN decl \o "(" \o args_outer_str \o ") {"
    ELSE "static " \o decl \o "(" \o args_outer_str \o ") {"

\* the call-through argument list (module_func.py 138-146)
ArgsInnerStr(kind, inner) ==
    IF kind \in {"DESTRUCTOR", "THIS"} THEN join(", ", <<"$self">> \o inner)
    ELSE join(", ", inner)

\* the deprecation notice (module_func.py 158-159)
Deprecate(func, name) ==
    IF "RZ_DEPRECATE" \in func.attrs
    THEN << Line(1, "rizin_try_warn_deprecate(\"" \o name \o "\", \"" \o func.spelling \o "\");") >>
    ELSE <<>>

\* the call-through statement (module_func.py 161-167)
Return(func, generic_ret, cast, args_inner_str) ==
    IF generic_ret
    THEN Line(1, "return (" \o cast \o ")" \o func.spelling \o "(" \o args_inner_str \o ");")
    ELSE Line(1, "return " \o func.spelling \o "(" \o args_inner_str \o ");")

\* the ModuleFunc object: its buffered wrapper and precondition block
FuncText(func, kind, name, generic_ret, args_outer_str, inner, decl, cast) ==
    [func |-> func.spelling, kind |-> kind, name |-> name,
     writer |-> << Line(0, WrapperHead(kind, name, decl, args_outer_str)) >>
                \o Deprecate(func, name)
                \o << Return(func, generic_ret, cast, ArgsInnerStr(kind, inner)), Line(0, "}") >>,
     contract |-> Contract(name, args_outer_str, ArgsNonnull(EmitterArgs(func, kind)))]

\* the result of constructing a ModuleFunc
Built(err, at, gens, fn) == [err |-> err, at |-> at, gens |-> gens, fn |-> fn]

FuncAfterCast(func, kind, name, generic_ret, pa, decl, cast) ==
    IF cast.err # "" THEN Built(cast.err, cast.at, cast.gens, <<>>)
    ELSE Built("", "", cast.gens,
               FuncText(func, kind, name, generic_ret, join(", ", pa.outer), pa.inner,
                        decl.text, cast.text))

FuncAfterDecl(maps, func, kind, name, generic_ret, pa, decl) ==
    IF decl.err # "" THEN Built(decl.err, decl.at, decl.gens, <<>>)
    ELSE FuncAfterCast(func, kind, name, generic_ret, pa, decl,
                       IF generic_ret
                       THEN stringify_decl(decl.gens, maps, func, func.result_type, <<"">>,
                                           generic_ret)
                       ELSE Named("", "", "", decl.gens))

\* module_func.py 140-155: the declaration of the wrapper, ret being the Python
\* name of the return type (module_func.py 113-117) when the documentation is
\* generated
FuncAfterDocs(maps, func, kind, name, generic_ret, pa, ret) ==
    IF ret.err # "" THEN Built(ret.err, ret.at, ret.gens, <<>>)
    ELSE FuncAfterDecl(maps, func, kind, name, generic_ret, pa,
                       IF kind \in {"THIS", "STATIC"}
                       THEN stringify_decl(ret.gens, maps, func, func.result_type, <<name>>,
                                           generic_ret)
                       ELSE Named("", "", "", ret.gens))

\* module_func.py 106-117: the sanity checks, then the documented signature
FuncAfterArgs(sphinx, maps, func, kind, name, generic_ret, generic_args, default_args, pa) ==
    IF pa.err # "" THEN Built(pa.err, pa.at, pa.gens, <<>>)
    ELSE IF \E g \in generic_args : g \notin Range(pa.inner)
        THEN Built("UnknownGenericArgument", func.location, pa.gens, <<>>)
    ELSE IF \E k \in DictKeys(default_args) : k \notin Range(pa.inner)
        THEN Built("UnknownDefaultArgument", func.location, pa.gens, <<>>)
    ELSE FuncAfterDocs(maps, func, kind, name, generic_ret, pa,
                       IF sphinx
                       THEN stringify_type_py(pa.gens, maps, func, func.result_type,
                                              generic_ret)
                       ELSE Named("", "", "", pa.gens))

\* ModuleFunc.__init__
ModuleFunc(sphinx, gens, maps, func, kind, name, generic_ret, generic_args, default_args) ==
    FuncAfterArgs(sphinx, maps, func, kind, name, generic_ret, generic_args, default_args,
                  ProcessArgs(sphinx, gens, maps, EmitterArgs(func, kind), generic_args,
                              default_args, <<>>, <<>>))

-----------------------------------------------------------------------------
(* Class builder (module_class.py) *)

\* the result of the loop over a struct's children
Fields(err, at, gens, fields, lines) ==
    [err |-> err, at |-> at, gens |-> gens, fields |-> fields, lines |-> lines]

RECURSIVE StructFields(_, _, _, _, _, _, _)
RECURSIVE StructField(_, _, _, _, _, _, _)
\* the loop over the struct's children (module_class.py 271-295)
StructFields(sphinx, gens, maps, children, ignore_set, fields, lines) ==
    IF children = <<>> THEN Fields("", "", gens, fields, lines)
    ELSE IF Head(children).kind = "FIELD_DECL" THEN
        IF Head(children).spelling \in fields
            THEN Fields("DuplicateField", Head(children).location, gens, fields, lines)
        ELSE IF Head(children).spelling \in ignore_set
            THEN StructFields(sphinx, gens, maps, Tail(children), ignore_set,
                              fields \cup {Head(children).spelling}, lines)
        ELSE StructField(sphinx, maps, children, ignore_set,
                         fields \cup {Head(children).spelling}, lines,
                         Declared(sphinx, maps, Head(children), Head(children).type, FALSE,
                                  stringify_decl(gens, maps, Head(children),
                                                 Head(children).type, <<>>, FALSE)))
    ELSE IF Head(children).kind \notin {"STRUCT_DECL", "UNION_DECL"}
        THEN Fields("UnexpectedDeclarationShape", Head(children).location, gens, fields, lines)
    ELSE StructFields(sphinx, gens, maps, Tail(children), ignore_set, fields, lines)

\* one emitted field, decl being its declaration
StructField(sphinx, maps, children, ignore_set, fields, lines, decl) ==
    IF decl.err # ""
        THEN Fields(decl.err, decl.at, decl.gens, fields,
                    IF decl.text # "" THEN Append(lines, Line(1, decl.text \o ";"))
                    ELSE lines)
    ELSE StructFields(sphinx, decl.gens, maps, Tail(children), ignore_set, fields,
                      Append(lines, Line(1, decl.text \o ";")))

\* the "%rename" lines entered before the struct (module_class.py 266-267)
RenameLines(struct, rename_fields) ==
    [i \in 1..Len(rename_fields) |->
        Line(0, "%rename " \o struct \o "::" \o rename_fields[i][1] \o " "
                \o rename_fields[i][2] \o ";")]

\* no line cancels a rename
NoUnrenameLines(struct, rename_fields) == <<>>

\* the lines that cancel the renames after the struct (module_class.py 305-306)
UnrenameLines(struct, rename_fields) ==
    [i \in 1..Len(rename_fields) |->
        Line(0, "%rename " \o struct \o "::" \o rename_fields[i][1] \o " \"\";")]

\* the result of gen_struct: lines is what it appended to struct_writer
Mirror(err, at, gens, lines) == [err |-> err, at |-> at, gens |-> gens, lines |-> lines]

\* the struct closed without the sanity check of the directives
StructUnchecked(struct, ignore_fields, rename_fields, pre, sf) ==
    Mirror(sf.err, sf.at, sf.gens,
           pre \o sf.lines \o << Line(0, "};") >> \o UnrenameLines(struct, rename_fields))

\* module_class.py 296-306, sf being the result of the loop and pre the lines before it
StructAfterFields(struct, ignore_fields, rename_fields, pre, sf) ==
    IF sf.err # "" THEN Mirror(sf.err, sf.at, sf.gens, pre \o sf.lines)
    ELSE IF \E f \in ignore_fields : f \notin sf.fields
        THEN Mirror("UnknownField", struct, sf.gens, pre \o sf.lines \o << Line(0, "};") >>)
    ELSE IF \E f \in DictKeys(rename_fields) : f \notin sf.fields
        THEN Mirror("UnknownField", struct, sf.gens, pre \o sf.lines \o << Line(0, "};") >>)
    ELSE Mirror("", "", sf.gens,
                pre \o sf.lines \o << Line(0, "};") >> \o UnrenameLines(struct, rename_fields))

\* ModuleClass.gen_struct
gen_struct(sphinx, gens, maps, struct, ignore_fields, rename_fields) ==
    StructAfterFields(struct, ignore_fields, rename_fields,
                      RenameLines(struct, rename_fields)
                          \o << Line(0, "struct " \o struct \o " {") >>,
                      StructFields(sphinx, gens, maps, StructChildren(struct), ignore_fields, {}, <<>>))

\* the keys of header.structs and of header.typedefs
HeaderStructs(h) == IF h = BoxH THEN StructNames ELSE {}

HeaderTypedefs(h) == IF h = BoxH THEN TypedefNames ELSE {}

\* a ModuleClass object
Class(name, struct, struct_writer, funcs) ==
    [name |-> name, struct |-> struct, struct_writer |-> struct_writer, funcs |-> funcs]

\* the result of ModuleClass.__init__: cls is the object it appended to Module.classes
Constructed(err, at, gens, cls) == [err |-> err, at |-> at, gens |-> gens, cls |-> cls]

\* module_class.py 93-108, gs being the result of gen_struct
ClassAfterStruct(name, struct, gs) ==
    Constructed(gs.err, gs.at, gs.gens,
                Class(name, struct,
                      << Line(0, "typedef struct " \o struct \o " " \o name \o ";"),
                         Line(0, "%rename " \o struct \o " " \o name \o ";") >> \o gs.lines,
                      <<>>))

\* module_class.py 89-108 for the struct found
ClassOfStruct(sphinx, gens, maps, h, struct, name, ignore_fields, rename_fields) ==
    IF name = ""
        THEN Constructed("AssertionError", h \o ":" \o struct, gens,
                         Class("", struct, <<>>, <<>>))
    ELSE ClassAfterStruct(name, struct,
                          gen_struct(sphinx, gens, maps, struct, ignore_fields, rename_fields))

\* ModuleClass.__init__; "" stands for an argument that is None
ModuleClassInit(sphinx, gens, maps, h, typedef, struct, rename, ignore_fields, rename_fields) ==
    IF typedef # "" /\ struct # ""
        THEN Constructed("AssertionError", h, gens, Class("", "", <<>>, <<>>))
    ELSE IF typedef # "" /\ typedef \notin HeaderTypedefs(h)
        THEN Constructed("NotFound", h \o ":" \o typedef, gens, Class("", "", <<>>, <<>>))
    ELSE IF typedef # ""
        THEN ClassOfStruct(sphinx, gens, maps, h, TypedefStruct(typedef),
                           IF rename = "" THEN typedef ELSE rename,
                           ignore_fields, rename_fields)
    ELSE IF struct = ""
        THEN Constructed("Exception", h, gens, Class("", "", <<>>, <<>>))
    ELSE IF struct \notin HeaderStructs(h)
        THEN Constructed("NotFound", h \o ":" \o struct, gens, Class("", "", <<>>, <<>>))
    ELSE ClassOfStruct(sphinx, gens, maps, h, struct, rename, ignore_fields, rename_fields)

\* the predicate without the test of header.used
FuncPredicateAnyUse(func, used_h, prefix) ==
    /\ startswith(func.spelling, prefix)
    /\ "RZ_API" \in func.attrs

\* the predicate of add_prefixed_funcs (module_class.py 229-236)
FuncPredicate(func, used_h, prefix) ==
    /\ func.spelling \notin used_h
    /\ startswith(func.spelling, prefix)
    /\ "RZ_API" \in func.attrs

\* the predicate of add_prefixed_methods (module_class.py 192-211)
MethodPredicate(func, used_h, prefix, struct) ==
    /\ func.spelling \notin used_h
    /\ startswith(func.spelling, prefix)
    /\ "RZ_API" \in func.attrs
    /\ Len(func.args) # 0
    /\ func.args[1].type.kind = "POINTER"
    /\ func.args[1].type.pointee.decl = struct

Predicate(func, used_h, prefix, kind, struct) ==
    IF kind = "THIS" THEN MethodPredicate(func, used_h, prefix, struct)
    ELSE FuncPredicate(func, used_h, prefix)

\* header.used left as it is
MarkUsedNot(used_h, spelling) == used_h

\* header.used.add(func.spelling) of the discovery loops
MarkUsed(used_h, spelling) == used_h \cup {spelling}

\* the name kept whole
KeepPrefix(spelling, prefix) == spelling

\* rename = func.spelling[len(prefix):]
StripPrefix(spelling, prefix) == SliceFrom(spelling, Len(prefix))

\* the result of a discovery loop
Discovered(err, at, gens, used_h, funcs) ==
    [err |-> err, at |-> at, gens |-> gens, used |-> used_h, funcs |-> funcs]

RECURSIVE PrefixedLoop(_, _, _, _, _, _, _, _, _)
RECURSIVE PrefixedMatch(_, _, _, _, _, _, _, _, _)
\* the loops of add_prefixed_methods / add_prefixed_funcs over the lazily
\* filtered header.funcs.values() (module_class.py 213-222, 238-247)
PrefixedLoop(sphinx, gens, maps, fs, used_h, prefix, kind, struct, funcs) ==
    IF fs = <<>> THEN Discovered("", "", gens, used_h, funcs)
    ELSE IF ~Predicate(Head(fs), used_h, prefix, kind, struct)
        THEN PrefixedLoop(sphinx, gens, maps, Tail(fs), used_h, prefix, kind, struct, funcs)
    ELSE PrefixedMatch(sphinx, maps, fs, MarkUsed(used_h, Head(fs).spelling), prefix, kind, struct,
                       funcs,
                       ModuleFunc(sphinx, gens, maps, Head(fs), kind,
                                  StripPrefix(Head(fs).spelling, prefix), FALSE, {}, <<>>))

\* one match, consumed and bound as mf
PrefixedMatch(sphinx, maps, fs, used_h, prefix, kind, struct, funcs, mf) ==
    IF mf.err # "" THEN Discovered(mf.err, mf.at, mf.gens, used_h, funcs)
    ELSE PrefixedLoop(sphinx, mf.gens, maps, Tail(fs), used_h, prefix, kind, struct,
                      Append(funcs, mf.fn))

-----------------------------------------------------------------------------
(* Emission (Module.write, ModuleClass.write, ModuleFunc.write) *)

RECURSIVE Flatten(_)
Flatten(ss) == IF ss = <<>> THEN <<>> ELSE Head(ss) \o Flatten(Tail(ss))

\* ModuleFunc.write: the precondition block, then the wrapper (no typemaps)
FuncWrite(fn) == fn.contract \o fn.writer

\* ModuleClass.write with the extension block put before the struct mirror
ClassWriteExtendFirst(cls) ==
    << Line(0, "%extend " \o cls.struct \o " {") >>
    \o Splice(1, Flatten([i \in 1..Len(cls.funcs) |-> FuncWrite(cls.funcs[i])]))
    \o << Line(0, "}") >>
    \o cls.struct_writer

\* ModuleClass.write
ClassWrite(cls) ==
    cls.struct_writer
    \o << Line(0, "%extend " \o cls.struct \o " {") >>
    \o Splice(1, Flatten([i \in 1..Len(cls.funcs) |-> FuncWrite(cls.funcs[i])]))
    \o << Line(0, "}") >>

RECURSIVE SetToSeq(_)
\* one fixed enumeration of a set
SetToSeq(S) ==
    IF S = {} THEN <<>>
    ELSE <<CHOOSE x \in S : TRUE>> \o SetToSeq(S \ {CHOOSE x \in S : TRUE})

\* the instantiations of a generic for the specializations in order sp
Instantiations(name, sp) == [i \in 1..Len(sp) |-> Line(0, "%" \o name \o "(" \o sp[i] \o ")")]

\* ModuleGeneric.write: the template of the generic's functions, then one
\* instantiation per specialization
GenericWrite(g) ==
    << Line(0, "%define " \o g.name \o "(TYPE)") >>
    \o Splice(1, Flatten([i \in 1..Len(g.funcs) |-> FuncWrite(g.funcs[i])]))
    \o << Line(0, "%enddef") >>
    \o Instantiations(g.name, SetToSeq(g.specializations))

\* the orders in which iterating the set Module.headers can yield its elements
IterationOrders(S) ==
    {q \in [1..Cardinality(S) -> S] : \A x \in S : \E i \in 1..Cardinality(S) : q[i] = x}

\* the deprecation warning settings (module.py 271-291), ' standing for a backquote
DeprecationLines ==
    << Line(0, "%inline %{"),
       Line(0, "bool rizin_warn_deprecate = true;"),
       Line(0, "bool rizin_warn_deprecate_instructions = true;"),
       Line(0, "%}"),
       Line(0, "%{"),
       Line(0, "void rizin_try_warn_deprecate(const char *name, const char *c_name) {"),
       Line(0, "    if (rizin_warn_deprecate) {"),
       Line(0, "        printf(\"Warning: '%s' calls deprecated function '%s'\\n\", name, c_name);"),
       Line(0, "        if (rizin_warn_deprecate_instructions) {"),
       Line(0, "            puts(\"To disable this warning, set rizin_warn_deprecate to false\");"),
       Line(0, "            puts(\"The way to do this depends on the SWIG language being used\");"),
       Line(0, "            puts(\"For python, do 'rizin.cvar.rizin_warn_deprecate = False'\");"),
       Line(0, "        }"),
       Line(0, "    }"),
       Line(0, "}"),
       Line(0, "%}") >>

\* ModuleEnum.write: one constant per line
EnumWrite(enum) ==
    [i \in 1..Len(enum.constants) |-> Line(0, "%constant int " \o enum.constants[i] \o ";")]

\* ModuleDirector.write: the proxy type, one overridable method per field
DirectorWrite(director) ==
    << Line(0, "%feature(\"director\") " \o director.name \o "Director;"),
       Line(0, "struct " \o director.name \o "Director {") >>
    \o [i \in 1..Len(director.fields) |-> Line(1, "virtual " \o director.fields[i] \o "();")]
    \o << Line(0, "};") >>

\* the header section of Module.write, the headers being iterated in order hs
HeaderLines(hs) ==
    << Line(0, "%module(directors=1) rizin"), Line(0, "%{") >>
    \o [i \in 1..Len(hs) |-> Line(0, "#include <" \o hs[i] \o ">")]
    \o << Line(0, "%}"), Line(0, "%include <rizin_pre.i>") >>

EnumLines(enms) == Flatten([i \in 1..Len(enms) |-> EnumWrite(enms[i])])

GenericLines(gens) == Flatten([i \in 1..Len(gens) |-> GenericWrite(gens[i])])

ClassLines(clss) == Flatten([i \in 1..Len(clss) |-> ClassWrite(clss[i])])

DirectorLines(dirs) == Flatten([i \in 1..Len(dirs) |-> DirectorWrite(dirs[i])])

TrailerLines == << Line(0, "%include <rizin_post.i>") >>

\* Module.write with the generic templates written after the directors
WriteTextGenericsLast(hs, enms, gens, clss, dirs) ==
    HeaderLines(hs)
    \o EnumLines(enms)
    \o DeprecationLines
    \o ClassLines(clss)
    \o DirectorLines(dirs)
    \o GenericLines(gens)
    \o TrailerLines

\* Module.write, the headers being iterated in order hs
WriteText(hs, enms, gens, clss, dirs) ==
    HeaderLines(hs)
    \o EnumLines(enms)
    \o GenericLines(gens)
    \o DeprecationLines
    \o ClassLines(clss)
    \o DirectorLines(dirs)
    \o TrailerLines
-----------------------------------------------------------------------------
(* The driver's inputs *)

NoError == [kind |-> "", at |-> ""]

NoCall ==
    [op |-> "", cls |-> 0, header |-> "", arg |-> "", bound |-> 0, again |-> FALSE,
     before |-> 0, default_args |-> <<>>]

\* the ModuleClass(...) calls: typedef, struct, rename, ignore_fields, rename_fields
ClassCalls ==
    { [typedef |-> "", struct |-> "box_t", rename |-> "Box", ignore_fields |-> {"internal"},
       rename_fields |-> << <<"size", "_size">> >>],
      [typedef |-> "", struct |-> "box_t", rename |-> "Box",
       ignore_fields |-> {"internal", "items"},
       rename_fields |-> << <<"size", "_size">>, <<"enabled", "_enabled">> >>],
      [typedef |-> "", struct |-> "box_t", rename |-> "Box", ignore_fields |-> {"nope"},
       rename_fields |-> <<>>],
      [typedef |-> "Item", struct |-> "", rename |-> "", ignore_fields |-> {},
       rename_fields |-> <<>>] }

\* the one class the annotation study registers
ProbeClassCall ==
    [typedef |-> "Box", struct |-> "", rename |-> "", ignore_fields |-> {"items"},
     rename_fields |-> <<>>]

CtorNames == {"box_new"}
DtorNames == {"box_free"}

\* add_method / add_func calls: name, rename, default_args
MethodCalls ==
    { [name |-> "box_resize", rename |-> "resize", default_args |-> << <<"flags", "0">> >>],
      [name |-> "box_set_items", rename |-> "set_items", default_args |-> <<>>] }

FuncCalls ==
    { [name |-> "box_cmp", rename |-> "compare", default_args |-> <<>>],
      [name |-> "box_nope", rename |-> "nope", default_args |-> <<>>] }

\* the tokens the annotation study tries on the generic that is not pointer-based
VectorTokens == {1, 3, 5, 7, 8}

\* the add_func calls of the annotation study
ProbeCalls ==
    { [name |-> ProbeName("RzList", k), rename |-> "probe", default_args |-> <<>>] :
        k \in 1..Len(Tokens) }
    \cup { [name |-> ProbeName("RzVector", k), rename |-> "probe", default_args |-> <<>>] :
        k \in VectorTokens }

Prefixes == {"box_", "box_re", "item_"}

\* ModuleGeneric.add_method calls: name, rename, generic_ret, generic_args
GenericCalls ==
    { [name |-> "rz_list_append", rename |-> "append", generic_ret |-> TRUE,
       generic_args |-> {"data"}],
      [name |-> "rz_list_join", rename |-> "join", generic_ret |-> FALSE,
       generic_args |-> {"list2"}],
      [name |-> "rz_list_join", rename |-> "join", generic_ret |-> FALSE,
       generic_args |-> {}] }

-----------------------------------------------------------------------------
(* State machine: the driver's calls *)

Init ==
    /\ headers = {}
    /\ used = [h \in HeaderNames |-> {}]
    /\ generics = <<>>
    /\ generic_mappings = {}
    /\ enable_sphinx = FALSE
    /\ classes = <<>>
    /\ enums = <<>>
    /\ directors = <<>>
    /\ phase = "register"
    /\ error = NoError
    /\ output = <<>>
    /\ output_rerun = <<>>
    /\ calls = 0
    /\ last = NoCall

\* the record of a call: what it was, how many functions it bound, whether the
\* call before it was the same call, and how many that one bound
Call(op, c, h, arg, bound) ==
    [op |-> op, cls |-> c, header |-> h, arg |-> arg, bound |-> bound,
     again |-> last.op = op /\ last.cls = c /\ last.header = h /\ last.arg = arg,
     before |-> last.bound, default_args |-> <<>>]

\* an exception that is recorded while the driver goes on
RaiseUnnoticed(err, at) ==
    /\ phase' = "register"
    /\ error' = [kind |-> err, at |-> at]

\* an exception leaves the driver: the run is over
Raise(err, at) ==
    /\ phase' = IF err = "" THEN "register" ELSE "aborted"
    /\ error' = [kind |-> err, at |-> at]

\* Header(name): the header registers itself in Module.headers
Header(h) ==
    /\ phase = "register"
    /\ h \notin headers
    /\ headers' = headers \cup {h}
    /\ UNCHANGED <<enable_sphinx, used, generics, generic_mappings, classes, enums, directors, phase,
                   error, output, output_rerun, calls, last>>

\* ModuleGeneric(header, name, pointer=...): registers a generic container
ModuleGeneric(g) ==
    /\ phase = "register"
    /\ GenericDecls[g].header \in headers
    /\ \A i \in 1..Len(generics) : generics[i].name # g
    /\ generics' = Append(generics, [name |-> g, pointer |-> GenericDecls[g].pointer,
                                     specializations |-> {}, funcs |-> <<>>])
    /\ generic_mappings' = generic_mappings \cup {<<GenericDecls[g].struct, g>>}
    /\ UNCHANGED <<enable_sphinx, headers, used, classes, enums, directors, phase, error, output,
                   output_rerun, calls, last>>

\* the effect of ModuleGeneric.add_method, mf being the constructed ModuleFunc
GenericBound(gi, h, call, mf) ==
    /\ generics' = IF mf.err = "" THEN [mf.gens EXCEPT ![gi].funcs = Append(@, mf.fn)]
                   ELSE mf.gens
    /\ Raise(mf.err, mf.at)
    /\ last' = Call("generic.add_method", gi, h, call, IF mf.err = "" THEN 1 ELSE 0)

\* ModuleGeneric.add_method(header, name, rename=..., generic_ret=..., generic_args=...)
GenericAddMethod(gi, h, call) ==
    /\ phase = "register"
    /\ calls < MaxCalls
    /\ gi \in 1..Len(generics)
    /\ h \in headers
    /\ call.name \in FuncNames(h)
    /\ GenericBound(gi, h, call,
                    ModuleFunc(enable_sphinx, generics, generic_mappings, FuncOf(h, call.name), "THIS",
                               call.rename, call.generic_ret, call.generic_args, <<>>))
    /\ calls' = calls + 1
    /\ UNCHANGED <<enable_sphinx, headers, used, generic_mappings, classes, enums, directors, output,
                   output_rerun>>

\* the effect of ModuleClass(...), mc being the result of its constructor
ClassRegistered(mc) ==
    /\ classes' = Append(classes, mc.cls)
    /\ generics' = mc.gens
    /\ Raise(mc.err, mc.at)

\* ModuleClass(header, typedef=..., struct=..., rename=..., ignore_fields=..., rename_fields=...)
ModuleClass(h, call) ==
    /\ phase = "register"
    /\ calls < MaxCalls
    /\ h \in headers
    /\ ClassRegistered(ModuleClassInit(enable_sphinx, generics, generic_mappings, h, call.typedef,
                                       call.struct, call.rename, call.ignore_fields,
                                       call.rename_fields))
    /\ last' = Call("ModuleClass", Len(classes) + 1, h, call, 0)
    /\ calls' = calls + 1
    /\ UNCHANGED <<enable_sphinx, headers, used, generic_mappings, enums, directors, output, output_rerun>>

\* ModuleFunc(header.funcs[name], kind, ...): the lookup fails for an unknown name
BindNamed(h, name, kind, fname, default_args) ==
    IF name \in FuncNames(h)
    THEN ModuleFunc(enable_sphinx, generics, generic_mappings, FuncOf(h, name), kind, fname, FALSE, {},
                    default_args)
    ELSE Built("NotFound", h \o ":" \o name, generics, <<>>)

\* self.funcs.append(func), mf being the constructed ModuleFunc
Bound(op, c, h, name, default_args, mf) ==
    /\ generics' = mf.gens
    /\ classes' = IF mf.err = "" THEN [classes EXCEPT ![c].funcs = Append(@, mf.fn)]
                  ELSE classes
    /\ Raise(mf.err, mf.at)
    /\ last' = [Call(op, c, h, name, IF mf.err = "" THEN 1 ELSE 0)
                   EXCEPT !.default_args = default_args]

\* the body shared by add_constructor, add_destructor, add_method and add_func:
\* mark the name consumed, bind header.funcs[name], append to self.funcs
ExplicitBind(op, c, h, name, kind, fname, default_args) ==
    /\ phase = "register"
    /\ calls < MaxCalls
    /\ c \in 1..Len(classes)
    /\ h \in headers
    /\ used' = [used EXCEPT ![h] = @ \cup {name}]
    /\ Bound(op, c, h, name, default_args, BindNamed(h, name, kind, fname, default_args))
    /\ calls' = calls + 1
    /\ UNCHANGED <<enable_sphinx, headers, generic_mappings, enums, directors, output, output_rerun>>

add_constructor(c, h, name) ==
    /\ c \in 1..Len(classes)
    /\ ExplicitBind("add_constructor", c, h, name, "CONSTRUCTOR", classes[c].struct, <<>>)

add_destructor(c, h, name) ==
    /\ c \in 1..Len(classes)
    /\ ExplicitBind("add_destructor", c, h, name, "DESTRUCTOR", classes[c].struct, <<>>)

add_method(c, h, call) ==
    ExplicitBind("add_method", c, h, call.name, "THIS", call.rename, call.default_args)

add_func(c, h, call) ==
    ExplicitBind("add_func", c, h, call.name, "STATIC", call.rename, call.default_args)

\* the effect of a discovery loop, r being its result
Discovery(op, c, h, prefix, r) ==
    /\ used' = [used EXCEPT ![h] = r.used]
    /\ generics' = r.gens
    /\ classes' = [classes EXCEPT ![c].funcs = r.funcs]
    /\ Raise(r.err, r.at)
    /\ last' = Call(op, c, h, prefix, Len(r.funcs) - Len(classes[c].funcs))

\* the body shared by add_prefixed_methods and add_prefixed_funcs
PrefixedBind(op, c, h, prefix, kind) ==
    /\ phase = "register"
    /\ calls < MaxCalls
    /\ c \in 1..Len(classes)
    /\ h \in headers
    /\ Discovery(op, c, h, prefix,
                 PrefixedLoop(enable_sphinx, generics, generic_mappings, HeaderFuncs(h), used[h], prefix,
                              kind, classes[c].struct, classes[c].funcs))
    /\ calls' = calls + 1
    /\ UNCHANGED <<enable_sphinx, headers, generic_mappings, enums, directors, output, output_rerun>>

add_prefixed_methods(c, h, prefix) ==
    PrefixedBind("add_prefixed_methods", c, h, prefix, "THIS")

add_prefixed_funcs(c, h, prefix) ==
    PrefixedBind("add_prefixed_funcs", c, h, prefix, "STATIC")

\* Module.write_io at the end of the driver; the rerun is the same build run again
Write ==
    /\ phase = "register"
    /\ \E hs \in IterationOrders(headers), hs2 \in IterationOrders(headers) :
          /\ output' = WriteText(hs, enums, generics, classes, directors)
          /\ output_rerun' = WriteText(hs2, enums, generics, classes, directors)
    /\ phase' = "written"
    /\ UNCHANGED <<enable_sphinx, headers, used, generics, generic_mappings, classes, enums, directors,
                   error, calls, last>>

Next ==
    \/ \E h \in HeaderNames : Header(h)
    \/ ModuleGeneric("RzList")
    \/ \E h \in HeaderNames, call \in ClassCalls : ModuleClass(h, call)
    \/ \E c \in 1..Len(classes), n \in CtorNames : add_constructor(c, BoxH, n)
    \/ \E c \in 1..Len(classes), n \in DtorNames : add_destructor(c, BoxH, n)
    \/ \E c \in 1..Len(classes), call \in MethodCalls : add_method(c, BoxH, call)
    \/ \E c \in 1..Len(classes), call \in FuncCalls : add_func(c, BoxH, call)
    \/ \E c \in 1..Len(classes), p \in Prefixes : add_prefixed_methods(c, BoxH, p)
    \/ \E c \in 1..Len(classes), p \in Prefixes : add_prefixed_funcs(c, BoxH, p)
    \/ Write

Spec == Init /\ [][Next]_vars

\* the driver of the annotation study: one class, functions bound one by one
NextNamer ==
    \/ \E h \in HeaderNames : Header(h)
    \/ \E g \in GenericNames : ModuleGeneric(g)
    \/ ModuleClass(BoxH, ProbeClassCall)
    \/ \E c \in 1..Len(classes), call \in ProbeCalls : add_func(c, BoxH, call)
    \/ \E gi \in 1..Len(generics), call \in GenericCalls : GenericAddMethod(gi, ListH, call)
    \/ Write

SpecNamer == Init /\ [][NextNamer]_vars


-----------------------------------------------------------------------------
(* Enums and directors: the entities Module.write emits around the classes *)

\* the prefixes of the ModuleEnum(header, prefix=...) calls
EnumPrefixes == {"BOX_MODE_", "NOPE_"}

\* the typedef names of the ModuleDirector(header, name) calls
DirectorNames == {"BoxPlugin", "Item"}

\* the ModuleClass(...) calls of the emission study
EmitClassCalls ==
    { [typedef |-> "", struct |-> "box_t", rename |-> "Box", ignore_fields |-> {"internal"},
       rename_fields |-> << <<"size", "_size">> >>],
      [typedef |-> "Item", struct |-> "", rename |-> "", ignore_fields |-> {},
       rename_fields |-> <<>>] }

\* the constants of header h that share the prefix, in declaration order
PrefixedConstants(h, prefix) ==
    SelectIdx(EnumConstants(h),
              {i \in 1..Len(EnumConstants(h)) : startswith(EnumConstants(h)[i], prefix)})

\* the effect of ModuleEnum(...) for the constants found: an empty result is fatal
EnumRegistered(h, prefix, constants) ==
    /\ enums' = IF constants = <<>> THEN enums
                ELSE Append(enums, [prefix |-> prefix, constants |-> constants])
    /\ Raise(IF constants = <<>> THEN "EmptyEnum" ELSE "", h \o ":" \o prefix)

\* ModuleEnum(header, prefix=...): registers the constants sharing the prefix
ModuleEnum(h, prefix) ==
    /\ phase = "register"
    /\ calls < MaxCalls
    /\ h \in headers
    /\ EnumRegistered(h, prefix, PrefixedConstants(h, prefix))
    /\ last' = Call("ModuleEnum", Len(enums) + 1, h, prefix, 0)
    /\ calls' = calls + 1
    /\ UNCHANGED <<enable_sphinx, headers, used, generics, generic_mappings, classes, directors, output,
                   output_rerun>>

\* a field whose type is a pointer to a function
IsFunctionPointer(child) ==
    /\ child.kind = "FIELD_DECL"
    /\ child.type.kind = "POINTER"
    /\ child.type.pointee.kind = "FUNCTIONPROTO"

\* the children of a struct that are not function-pointer fields
NotOverridable(struct) ==
    {i \in 1..Len(StructChildren(struct)) : ~IsFunctionPointer(StructChildren(struct)[i])}

\* a ModuleDirector object: one overridable method per field
Director(name, struct) ==
    [name |-> name, struct |-> struct,
     fields |-> [i \in 1..Len(StructChildren(struct)) |-> StructChildren(struct)[i].spelling]]

\* the effect of ModuleDirector(...) for the struct found
DirectorRegistered(name, struct, bad) ==
    /\ directors' = IF bad = {} THEN Append(directors, Director(name, struct)) ELSE directors
    /\ Raise(IF bad = {} THEN "" ELSE "UnexpectedDeclarationShape",
             IF bad = {} THEN ""
             ELSE StructChildren(struct)[CHOOSE i \in bad : \A j \in bad : i <= j].location)

\* ModuleDirector(header, name): registers the proxy of a vtable struct
ModuleDirector(h, name) ==
    /\ phase = "register"
    /\ calls < MaxCalls
    /\ h \in headers
    /\ name \in HeaderTypedefs(h)
    /\ DirectorRegistered(name, TypedefStruct(name), NotOverridable(TypedefStruct(name)))
    /\ last' = Call("ModuleDirector", Len(directors) + 1, h, name, 0)
    /\ calls' = calls + 1
    /\ UNCHANGED <<enable_sphinx, headers, used, generics, generic_mappings, classes, enums, output,
                   output_rerun>>

\* the driver of the emission study: entities of every kind, then the write
NextEmit ==
    \/ \E h \in HeaderNames : Header(h)
    \/ ModuleGeneric("RzList")
    \/ \E p \in EnumPrefixes : ModuleEnum(BoxH, p)
    \/ \E call \in EmitClassCalls : ModuleClass(BoxH, call)
    \/ \E c \in 1..Len(classes), call \in MethodCalls : add_method(c, BoxH, call)
    \/ \E n \in DirectorNames : ModuleDirector(BoxH, n)
    \/ Write

SpecEmit == Init /\ [][NextEmit]_vars

-----------------------------------------------------------------------------
(* The directives of a binding: default_args and generic_args *)

\* add_method calls whose default_args name a parameter, the receiver, no parameter
DirectiveMethodCalls ==
    { [name |-> "box_resize", rename |-> "resize", default_args |-> << <<"flags", "0">> >>],
      [name |-> "box_resize", rename |-> "resize", default_args |-> << <<"box", "NULL">> >>],
      [name |-> "box_resize", rename |-> "resize", default_args |-> << <<"nope", "0">> >>] }

\* add_func calls on a function that has a parameter named self
DirectiveFuncCalls ==
    { [name |-> "box_cmp", rename |-> "compare", default_args |-> <<>>],
      [name |-> "box_cmp", rename |-> "compare", default_args |-> << <<"other", "NULL">> >>],
      [name |-> "box_cmp", rename |-> "compare", default_args |-> << <<"self", "NULL">> >>],
      [name |-> "box_cmp", rename |-> "compare", default_args |-> << <<"_self", "NULL">> >>] }

\* ModuleGeneric.add_method calls whose generic_args name a parameter, no parameter
DirectiveGenericCalls ==
    { [name |-> "rz_list_append", rename |-> "append", generic_ret |-> TRUE,
       generic_args |-> {"data"}],
      [name |-> "rz_list_append", rename |-> "append", generic_ret |-> TRUE,
       generic_args |-> {"nope"}],
      [name |-> "rz_list_join", rename |-> "join", generic_ret |-> FALSE,
       generic_args |-> {"list2"}] }

\* the driver of the directive study: one class, functions bound in every role
NextArgs ==
    \/ \E h \in HeaderNames : Header(h)
    \/ ModuleGeneric("RzList")
    \/ ModuleClass(BoxH, ProbeClassCall)
    \/ \E c \in 1..Len(classes), n \in CtorNames : add_constructor(c, BoxH, n)
    \/ \E c \in 1..Len(classes), n \in DtorNames : add_destructor(c, BoxH, n)
    \/ \E c \in 1..Len(classes), call \in DirectiveMethodCalls : add_method(c, BoxH, call)
    \/ \E c \in 1..Len(classes), call \in DirectiveFuncCalls : add_func(c, BoxH, call)
    \/ \E gi \in 1..Len(generics), call \in DirectiveGenericCalls :
          GenericAddMethod(gi, ListH, call)
    \/ Write

SpecArgs == Init /\ [][NextArgs]_vars

-----------------------------------------------------------------------------
(* The field directives of a class: ignore_fields and rename_fields *)

\* a ModuleClass(...) call on a struct
StructCall(struct, rename, ignore_fields, rename_fields) ==
    [typedef |-> "", struct |-> struct, rename |-> rename, ignore_fields |-> ignore_fields,
     rename_fields |-> rename_fields]

\* the ModuleClass(...) calls of the field study
FieldCalls ==
    { StructCall("box_t", "Box", {"internal"}, << <<"size", "_size">> >>),
      StructCall("box_t", "Box", {"nope"}, <<>>),
      StructCall("box_t", "Box", {}, << <<"nope", "other">> >>),
      StructCall("box_t", "Box", {}, << <<"size", "enabled">> >>),
      StructCall("box_t", "Box", {"items"}, << <<"size", "n">>, <<"enabled", "n">> >>),
      StructCall("pair_t", "Pair", {}, <<>>),
      StructCall("bag_t", "Bag", {}, <<>>),
      StructCall("bag_t", "Bag", {"items"}, << <<"count", "n">> >>) }

\* the driver of the field study: classes only
NextFields ==
    \/ \E h \in HeaderNames : Header(h)
    \/ ModuleGeneric("RzList")
    \/ \E call \in FieldCalls : ModuleClass(BoxH, call)
    \/ Write

SpecFields == Init /\ [][NextFields]_vars

-----------------------------------------------------------------------------
(* The interface-level names of a class's functions *)

\* the driver of the name study: one class, explicit and discovered functions;
\* one add_func call renames a function to the stripped name of another, and
\* one of the discovery prefixes is the whole name of a function
NextNames ==
    \/ \E h \in HeaderNames : Header(h)
    \/ ModuleGeneric("RzList")
    \/ ModuleClass(BoxH, ProbeClassCall)
    \/ \E c \in 1..Len(classes), call \in MethodCalls : add_method(c, BoxH, call)
    \/ \E c \in 1..Len(classes), rename \in {"compare", "items"} :
          add_func(c, BoxH, [name |-> "box_cmp", rename |-> rename, default_args |-> <<>>])
    \/ \E c \in 1..Len(classes), p \in {"box_", "box_new", "item_"} : add_prefixed_methods(c, BoxH, p)
    \/ \E c \in 1..Len(classes), p \in {"box_", "box_new", "item_"} : add_prefixed_funcs(c, BoxH, p)
    \/ Write

SpecNames == Init /\ [][NextNames]_vars

-----------------------------------------------------------------------------
(* The build with the documentation *)

\* main.py 54-58: --doxygen-html-path is given; the arguments are read before
\* the first header is parsed
EnableSphinx ==
    /\ phase = "register"
    /\ ~enable_sphinx
    /\ headers = {}
    /\ enable_sphinx' = TRUE
    /\ UNCHANGED <<headers, used, generics, generic_mappings, classes, enums, directors,
                   phase, error, output, output_rerun, calls, last>>

\* the driver of the documentation study: the same calls with and without the
\* documentation; among the constructors are a function that returns an
\* annotated generic and one that returns a generic without annotation
NextDocs ==
    \/ EnableSphinx
    \/ \E h \in HeaderNames : Header(h)
    \/ ModuleGeneric("RzList")
    \/ \E call \in {ProbeClassCall} \cup {k \in ClassCalls : k.ignore_fields = {"internal"}} :
          ModuleClass(BoxH, call)
    \/ \E c \in 1..Len(classes), n \in {"box_new", "box_items", "box_take"} :
          add_constructor(c, BoxH, n)
    \/ \E c \in 1..Len(classes), n \in {"box_free", "box_items"} : add_destructor(c, BoxH, n)
    \/ \E c \in 1..Len(classes), call \in MethodCalls : add_method(c, BoxH, call)
    \/ \E c \in 1..Len(classes), call \in FuncCalls : add_func(c, BoxH, call)
    \/ \E c \in 1..Len(classes) : add_prefixed_methods(c, BoxH, "box_")
    \/ \E c \in 1..Len(classes) : add_prefixed_funcs(c, BoxH, "item_")
    \/ \E gi \in 1..Len(generics), call \in GenericCalls : GenericAddMethod(gi, ListH, call)
    \/ Write

SpecDocs == Init /\ [][NextDocs]_vars
-----------------------------------------------------------------------------
(* Properties *)

\* header.funcs[name] looked up over all headers
Underlying(name) ==
    (BoxFuncs \o ListFuncs)[CHOOSE i \in 1..Len(BoxFuncs \o ListFuncs) :
                                (BoxFuncs \o ListFuncs)[i].spelling = name]

RECURSIVE AllParams(_)
AllParams(fs) ==
    IF fs = <<>> THEN <<>> ELSE Head(fs).args \o AllParams(Tail(fs))

\* every declaration a type can be named for: [cursor, type]
Uses ==
    Range([i \in 1..Len(AllParams(BoxFuncs \o ListFuncs)) |->
              [cursor |-> AllParams(BoxFuncs \o ListFuncs)[i],
               type |-> AllParams(BoxFuncs \o ListFuncs)[i].type]])
    \cup Range([i \in 1..Len(BoxFuncs \o ListFuncs) |->
                  [cursor |-> (BoxFuncs \o ListFuncs)[i],
                   type |-> (BoxFuncs \o ListFuncs)[i].result_type]])
    \cup {[cursor |-> f, type |-> f.type] :
            f \in {c \in Range(StructChildren("box_t")) \cup Range(StructChildren("item_t")) :
                     c.kind = "FIELD_DECL"}}

\* the uses of a generic that is registered in the current state
GenericUses ==
    {u \in Uses : get_generic_name(generic_mappings, u.type) \notin {"", "void"}}

\* the inner type an accepted annotation yields for a generic
InnerType(token, pointer) ==
    IF pointer THEN SliceMid(StripConst(SliceMid(token, 3, 3)), 0, 2)
    ELSE StripConst(SliceMid(token, 3, 3))

\* what a concrete use of generic g at u yields in the current state
UseNamed(u) ==
    stringify_decl(generics, generic_mappings, u.cursor, u.type, <<"x">>, FALSE)

UseIsGT(u, g, r) ==
    r.err = "" =>
        /\ \E T \in Specializations(r.gens, g) :
              /\ T = InnerType(u.cursor.token, generics[GenericIdx(generics, g)].pointer)
              /\ startswith(r.text, g \o "_" \o T \o " ")
        /\ stringify_decl(r.gens, generic_mappings, u.cursor, u.type, <<"x">>, FALSE).gens
             = r.gens
        /\ \A h \in GenericNames \ {g} :
              Specializations(r.gens, h) = Specializations(generics, h)

\* C1: in every state of the registration phase, every concrete use of a
\* registered generic G whose annotation is accepted is named "G_T" for the
\* annotation's inner type T, T is then in G's specialization set, and using
\* it again leaves the registry as it is (T is held once, however often it is
\* used).
ConcreteUseNamesGT ==
    phase = "register" =>
        \A u \in GenericUses :
            UseIsGT(u, get_generic_name(generic_mappings, u.type), UseNamed(u))

\* two parameters annotated "char *" and "const char *" have both been named
\* RzList_char, and "char" is the one specialization of RzList
ConcreteUseWitness ==
    /\ phase = "register"
    /\ Specializations(generics, "RzList") = {"char"}
    /\ \E c \in 1..Len(classes) :
          \E i, j \in 1..Len(classes[c].funcs) :
              /\ classes[c].funcs[i].func = ProbeName("RzList", 1)
              /\ classes[c].funcs[j].func = ProbeName("RzList", 2)
              /\ classes[c].funcs[i].writer[1].text = "static void probe(RzList_char *items) {"
              /\ classes[c].funcs[j].writer[1].text = "static void probe(RzList_char *items) {"

\* C2: when the build has written its text, a second run of the same build
\* over the same input has written the same text.
BuildsAgree == phase = "written" => output = output_rerun

\* the bound functions of the model
BoundFunctions ==
    UNION {Range(classes[c].funcs) : c \in 1..Len(classes)}
    \cup UNION {Range(generics[g].funcs) : g \in 1..Len(generics)}

RECURSIVE NonnullOf(_)
\* the names of the parameters that carry RZ_NONNULL, in declaration order
NonnullOf(args) ==
    IF args = <<>> THEN <<>>
    ELSE (IF "RZ_NONNULL" \in Head(args).attrs THEN << Head(args).spelling >> ELSE <<>>)
         \o NonnullOf(Tail(args))

\* the names a precondition block lists
ContractNames(contract) ==
    IF contract = <<>> THEN <<>>
    ELSE [i \in 1..(Len(contract) - 3) |->
             SliceMid(contract[i + 2].text, 0, Len(" != NULL;"))]

\* the shape of a precondition block listing names
IsContractOf(contract, names) ==
    IF names = <<>> THEN contract = <<>>
    ELSE /\ Len(contract) = Len(names) + 3
         /\ startswith(contract[1].text, "%contract ")
         /\ contract[2].text = "require:"
         /\ \A i \in 1..Len(names) : contract[i + 2].text = names[i] \o " != NULL;"
         /\ contract[Len(contract)].text = "}"

\* the parameters of the visible signature of a bound function
SignatureParams(fn) ==
    IF fn.kind \in {"DESTRUCTOR", "THIS"}
    THEN Tail(Underlying(fn.func).args)
    ELSE Underlying(fn.func).args

\* C3 (as stated): the precondition block of every bound function lists
\* exactly the RZ_NONNULL parameters of the underlying function, in order.
ContractListsAllNonnull ==
    \A fn \in BoundFunctions :
        IsContractOf(fn.contract, NonnullOf(Underlying(fn.func).args))

\* C3 (amended): the precondition block of every bound function lists exactly
\* the RZ_NONNULL parameters of its visible signature, in declaration order
\* (all parameters for a constructor or static function, all but the receiver
\* for a destructor or instance method), and there is no block when there is
\* no such parameter.
ContractListsSignatureNonnull ==
    \A fn \in BoundFunctions :
        IsContractOf(fn.contract, NonnullOf(SignatureParams(fn)))

\* an instance method whose receiver is RZ_NONNULL and a static function
ContractWitness ==
    /\ \E fn \in BoundFunctions :
          /\ fn.kind = "THIS" /\ fn.func = "box_resize"
          /\ ContractNames(fn.contract) = << "n" >>
    /\ \E fn \in BoundFunctions :
          /\ fn.kind = "STATIC" /\ fn.func = "box_cmp"
          /\ ContractNames(fn.contract) = << "self", "other" >>

PrefixedOps == {"add_prefixed_methods", "add_prefixed_funcs"}

ExplicitOps == {"add_constructor", "add_destructor", "add_method", "add_func"}

\* the step is the builder call recorded in last'
IsCall(ops) == calls' = calls + 1 /\ last'.op \in ops

\* the functions the step appended to the class of the call
NewlyBound ==
    SubSeq(classes'[last'.cls].funcs, Len(classes[last'.cls].funcs) + 1,
           Len(classes'[last'.cls].funcs))

\* C4: a prefixed discovery call never binds a function whose name the header
\* had recorded as consumed before the call, and every explicit add_* call
\* records its name as consumed on its header.
DiscoverySkipsConsumed ==
    [][/\ IsCall(PrefixedOps) =>
              \A fn \in Range(NewlyBound) : fn.func \notin used[last'.header]
       /\ IsCall(ExplicitOps) => last'.arg \in used'[last'.header]]_vars

\* a discovery over "box_" that bound functions after box_new had been bound
\* as the constructor: box_new is bound once
DiscoveryWitness ==
    /\ last.op = "add_prefixed_funcs" /\ last.arg = "box_" /\ last.bound > 0
    /\ classes[last.cls].funcs[1].kind = "CONSTRUCTOR"
    /\ classes[last.cls].funcs[1].func = "box_new"
    /\ "box_new" \in used[last.header]
    /\ \A i \in 2..Len(classes[last.cls].funcs) : classes[last.cls].funcs[i].func # "box_new"

\* the generic a probe function's parameter is a pointer to, and its token
ProbeGeneric(name) ==
    CHOOSE g \in GenericNames : \E k \in 1..Len(Tokens) : name = ProbeName(g, k)

ProbeToken(name) ==
    Tokens[CHOOSE k \in 1..Len(Tokens) : name = ProbeName(ProbeGeneric(name), k)]

IsProbe(name) == \E g \in GenericNames, k \in 1..Len(Tokens) : name = ProbeName(g, k)

IsAnnotation(token) == startswith(token, "/*<") /\ endswith(token, ">*/")

\* the step binds a probe function of generic g, registered with pointer flag p,
\* whose parameter carries an annotation
IsProbeOf(g, p) ==
    /\ IsCall({"add_func"})
    /\ IsProbe(last'.arg)
    /\ ProbeGeneric(last'.arg) = g
    /\ \E i \in 1..Len(generics) : generics[i].name = g /\ generics[i].pointer = p
    /\ IsAnnotation(ProbeToken(last'.arg))

\* C5: a concrete use of a pointer-based generic whose annotation's inner text
\* does not end in " *" is rejected with PointerMismatch; one whose inner text
\* does is accepted and records the inner text without the " *".
PointerGenericRejects ==
    [][IsProbeOf("RzList", TRUE) =>
          IF endswith(StripConst(SliceMid(ProbeToken(last'.arg), 3, 3)), " *")
          THEN /\ error'.kind = ""
               /\ SliceMid(StripConst(SliceMid(ProbeToken(last'.arg), 3, 3)), 0, 2)
                    \in Specializations(generics', "RzList")
          ELSE error'.kind = "PointerMismatch"]_vars

\* C6: no specialization ending in "*" is ever in the specialization set of a
\* generic that is not pointer-based.
NonPointerGenericRejects ==
    \A i \in 1..Len(generics) :
        ~generics[i].pointer =>
            \A s \in generics[i].specializations : ~endswith(s, "*")

\* the parameters of call's function that are named in generic_args, are
\* pointers to a registered pointer-based generic and carry no annotation
ErasedUnannotated(call) ==
    {a \in Range(Tail(Underlying(call.name).args)) :
        /\ a.spelling \in call.generic_args
        /\ a.type.kind = "POINTER"
        /\ \E i \in 1..Len(generics) :
              /\ generics[i].pointer
              /\ generics[i].name = MappedGeneric(generic_mappings, a.type.pointee.decl)
        /\ ~IsAnnotation(a.token)}

\* the same for the parameters not named in generic_args
ConcreteUnannotated(call) ==
    {a \in Range(Tail(Underlying(call.name).args)) :
        /\ a.spelling \notin call.generic_args
        /\ a.type.kind = "POINTER"
        /\ \E i \in 1..Len(generics) :
              /\ generics[i].pointer
              /\ generics[i].name = MappedGeneric(generic_mappings, a.type.pointee.decl)
        /\ ~IsAnnotation(a.token)}

HasReceiver(func, struct) ==
    /\ func.args # <<>>
    /\ func.args[1].type.kind = "POINTER"
    /\ func.args[1].type.pointee.decl = struct

RECURSIVE Discoverable(_, _, _)
\* the functions of fs, in order, that are not consumed, start with the prefix
\* and are exported
Discoverable(fs, used_h, prefix) ==
    IF fs = <<>> THEN <<>>
    ELSE (IF /\ Head(fs).spelling \notin used_h
             /\ startswith(Head(fs).spelling, prefix)
             /\ "RZ_API" \in Head(fs).attrs
          THEN << Head(fs) >> ELSE <<>>)
         \o Discoverable(Tail(fs), used_h, prefix)

RECURSIVE WithReceiver(_, _)
WithReceiver(fs, struct) ==
    IF fs = <<>> THEN <<>>
    ELSE (IF HasReceiver(Head(fs), struct) THEN << Head(fs) >> ELSE <<>>)
         \o WithReceiver(Tail(fs), struct)

\* what a bound function is: the function, its role, its name
Binding(fn) == [func |-> fn.func, kind |-> fn.kind, name |-> fn.name]

Bindings(fns) == [i \in 1..Len(fns) |-> Binding(fns[i])]

\* the functions of the header the call can discover, before the call
Candidates == Discoverable(HeaderFuncs(last'.header), used[last'.header], last'.arg)

\* each candidate bound by its first parameter: instance method or static
BoundByReceiver(fs, struct, prefix) ==
    [i \in 1..Len(fs) |->
        [func |-> fs[i].spelling,
         kind |-> IF HasReceiver(fs[i], struct) THEN "THIS" ELSE "STATIC",
         name |-> SubSeq(fs[i].spelling, Len(prefix) + 1, Len(fs[i].spelling))]]

\* each candidate bound in one role
BoundAs(fs, kind, prefix) ==
    [i \in 1..Len(fs) |->
        [func |-> fs[i].spelling, kind |-> kind,
         name |-> SubSeq(fs[i].spelling, Len(prefix) + 1, Len(fs[i].spelling))]]

\* what the call of the step binds when it succeeds
DiscoveryBinds ==
    IF last'.op = "add_prefixed_methods"
    THEN BoundAs(WithReceiver(Candidates, classes[last'.cls].struct), "THIS", last'.arg)
    ELSE BoundAs(Candidates, "STATIC", last'.arg)

IsPrefixOf(s, t) == Len(s) <= Len(t) /\ SubSeq(t, 1, Len(s)) = s

\* C8 (as stated): a successful discovery call binds exactly the unconsumed,
\* prefixed, exported functions of the header, each as an instance method when
\* its first parameter is a pointer to the class's struct and as a static
\* function otherwise, under its name without the prefix.
DiscoveryBindsByReceiver ==
    [][(IsCall(PrefixedOps) /\ error'.kind = "") =>
          Bindings(NewlyBound)
            = BoundByReceiver(Candidates, classes[last'.cls].struct, last'.arg)]_vars

\* C8 (amended): a successful add_prefixed_methods call binds, in declaration
\* order, exactly the unconsumed, prefixed, exported functions of the header
\* whose first parameter is a pointer to the class's struct, each as an
\* instance method; a successful add_prefixed_funcs call binds all unconsumed,
\* prefixed, exported functions, each as a static function whatever its first
\* parameter is; each is named by its name without the prefix.  A call that
\* fails has bound the functions that precede the failing one.
DiscoveryBindsByCall ==
    [][IsCall(PrefixedOps) =>
          IF error'.kind = "" THEN Bindings(NewlyBound) = DiscoveryBinds
          ELSE /\ IsPrefixOf(Bindings(NewlyBound), DiscoveryBinds)
               /\ Len(NewlyBound) < Len(DiscoveryBinds)]_vars

\* add_prefixed_funcs over "box_" has bound box_free, whose first parameter is
\* a pointer to the class's struct, as the static function "free"
DiscoveryRoleWitness ==
    /\ last.op = "add_prefixed_funcs" /\ last.arg = "box_" /\ error.kind = ""
    /\ classes[last.cls].struct = "box_t"
    /\ \E fn \in Range(classes[last.cls].funcs) :
          Binding(fn) = [func |-> "box_free", kind |-> "STATIC", name |-> "free"]

RECURSIVE KeptFields(_, _)
\* the fields among the children that are not ignored, in declaration order
KeptFields(children, ignore_fields) ==
    IF children = <<>> THEN <<>>
    ELSE (IF Head(children).kind = "FIELD_DECL" /\ Head(children).spelling \notin ignore_fields
          THEN << Head(children) >> ELSE <<>>)
         \o KeptFields(Tail(children), ignore_fields)

\* the declaration of a field in the registry gens
FieldLine(gens, maps, field) ==
    Line(1, stringify_decl(gens, maps, field, field.type, <<>>, FALSE).text \o ";")

\* the mirror of struct s under its class name for a call's ignore set and rename map
MirrorOf(gens, maps, s, name, call) ==
    << Line(0, "typedef struct " \o s \o " " \o name \o ";"),
       Line(0, "%rename " \o s \o " " \o name \o ";") >>
    \o [i \in 1..Len(call.rename_fields) |->
          Line(0, "%rename " \o s \o "::" \o call.rename_fields[i][1] \o " "
                  \o call.rename_fields[i][2] \o ";")]
    \o << Line(0, "struct " \o s \o " {") >>
    \o [i \in 1..Len(KeptFields(StructChildren(s), call.ignore_fields)) |->
          FieldLine(gens, maps, KeptFields(StructChildren(s), call.ignore_fields)[i])]
    \o << Line(0, "};") >>
    \o [i \in 1..Len(call.rename_fields) |->
          Line(0, "%rename " \o s \o "::" \o call.rename_fields[i][1] \o " \"\";")]

\* C9: a class registered from a struct with an ignore set and a rename map
\* has as its struct mirror: the class's typedef and rename, one rename
\* directive per renamed field, the struct block listing exactly the fields
\* that are not ignored in declaration order, and after the block one
\* directive per renamed field cancelling its rename.
MirrorListsKeptFields ==
    [][(IsCall({"ModuleClass"}) /\ error'.kind = "") =>
          classes'[last'.cls].struct_writer
            = MirrorOf(generics', generic_mappings', classes'[last'.cls].struct,
                       classes'[last'.cls].name, last'.arg)]_vars

\* box_t registered with two ignored and two renamed fields
MirrorWitness ==
    /\ last.op = "ModuleClass" /\ error.kind = ""
    /\ last.arg.ignore_fields = {"internal", "items"}
    /\ Len(last.arg.rename_fields) = 2
    /\ Len(classes[last.cls].struct_writer) = 12
    /\ classes[last.cls].struct_writer[3].text = "%rename box_t::size _size;"
    /\ classes[last.cls].struct_writer[6].text = "int size;"
    /\ classes[last.cls].struct_writer[11].text = "%rename box_t::size \"\";"

\* the role a discovery call binds in
RoleOf(op) == IF op = "add_prefixed_methods" THEN "THIS" ELSE "STATIC"

\* C10: a discovery call records as consumed every function it hands to the
\* emitter (the ones it binds and, when it fails, the one that failed), and a
\* second identical call binds nothing: the class's function list and the
\* header's consumed set are after it what they were after the first.
DiscoveryConsumesMatches ==
    [][IsCall(PrefixedOps) =>
          /\ \A fn \in Range(NewlyBound) : fn.func \in used'[last'.header]
          /\ Cardinality(used'[last'.header] \ used[last'.header])
               = Len(NewlyBound) + (IF error'.kind = "" THEN 0 ELSE 1)
          /\ error'.kind = "" =>
                PrefixedLoop(enable_sphinx', generics', generic_mappings', HeaderFuncs(last'.header),
                             used'[last'.header], last'.arg, RoleOf(last'.op),
                             classes'[last'.cls].struct, classes'[last'.cls].funcs)
                  = Discovered("", "", generics', used'[last'.header],
                               classes'[last'.cls].funcs)
          /\ last'.again => (classes' = classes /\ used' = used /\ last'.bound = 0)]_vars

\* a discovery call that bound functions, made a second time
DiscoveryAgainWitness ==
    /\ last.op \in PrefixedOps
    /\ last.again /\ last.before > 0 /\ last.bound = 0
    /\ error.kind = ""
    /\ Len(classes[last.cls].funcs) = last.before


-----------------------------------------------------------------------------
(* The structure of the interface text *)

RECURSIVE FuncBlocks(_)
\* the bound functions of a class in the order they were bound, each its
\* precondition block followed by its wrapper, inside the extension block
FuncBlocks(funcs) ==
    IF funcs = <<>> THEN <<>>
    ELSE Splice(1, Head(funcs).contract \o Head(funcs).writer) \o FuncBlocks(Tail(funcs))

\* the block of one class: the struct mirror, then the extension block
ClassBlock(cls) ==
    cls.struct_writer
    \o << Line(0, "%extend " \o cls.struct \o " {") >>
    \o FuncBlocks(cls.funcs)
    \o << Line(0, "}") >>

RECURSIVE ClassBlocks(_)
\* one block per class in registration order
ClassBlocks(clss) ==
    IF clss = <<>> THEN <<>> ELSE ClassBlock(Head(clss)) \o ClassBlocks(Tail(clss))

\* the sections the claim lists, the typemap prelude counted with the includes
ListedSections(hs) ==
    HeaderLines(hs) \o GenericLines(generics) \o DeprecationLines \o ClassBlocks(classes)
    \o DirectorLines(directors) \o TrailerLines

\* the sections Module.write emits: the listed ones, and one block per Enum in
\* registration order between the typemap prelude and the generic templates
EmittedSections(hs) ==
    HeaderLines(hs) \o EnumLines(enums) \o GenericLines(generics) \o DeprecationLines
    \o ClassBlocks(classes) \o DirectorLines(directors) \o TrailerLines

\* C11 as stated: the interface text consists, in this order, of the module
\* declaration, the raw header includes, the generic templates, the
\* deprecation-warning helpers, one block per Class in registration order
\* (struct mirror, then extension block with the functions in binding order),
\* one block per Director in registration order, and the trailer.
OutputIsListedSections ==
    phase = "written" => \E hs \in IterationOrders(headers) : output = ListedSections(hs)

\* C11: the interface text written by Module.write consists, in this order, of
\* the module declaration, the raw header includes, the typemap prelude
\* include, one block per Enum in registration order, the generic templates,
\* the deprecation-warning helpers, one block per Class in registration order
\* (struct mirror, then extension block with the functions in binding order),
\* one block per Director in registration order, and the trailer.
OutputIsEmittedSections ==
    phase = "written" => \E hs \in IterationOrders(headers) : output = EmittedSections(hs)

\* a written text with an enum and a class that has a bound function
OutputSectionsWitness ==
    /\ phase = "written"
    /\ Len(enums) >= 1
    /\ \E c \in 1..Len(classes) : classes[c].funcs # <<>>

-----------------------------------------------------------------------------
(* The order of the entities in the interface text *)

\* the offsets at which the block of lines occurs in the written text
Positions(block) ==
    {p \in 0..(Len(output) - Len(block)) : SubSeq(output, p + 1, p + Len(block)) = block}

\* block b1 is fully emitted before block b2 starts
EmittedBefore(b1, b2) ==
    \E p \in Positions(b1), q \in Positions(b2) : p + Len(b1) <= q

\* the blocks of the entities of one kind, in registration order
EnumBlocks == [i \in 1..Len(enums) |-> EnumWrite(enums[i])]
GenericBlocks == [i \in 1..Len(generics) |-> GenericWrite(generics[i])]
EntityClassBlocks == [i \in 1..Len(classes) |-> ClassBlock(classes[i])]
DirectorBlocks == [i \in 1..Len(directors) |-> DirectorWrite(directors[i])]

\* the blocks of one kind are emitted in registration order
InRegistrationOrder(blocks) ==
    \A i, j \in 1..Len(blocks) : i < j => EmittedBefore(blocks[i], blocks[j])

\* every block of the first kind is emitted before every block of the second
KindBefore(first, second) ==
    \A i \in 1..Len(first), j \in 1..Len(second) : EmittedBefore(first[i], second[j])

\* C12 as stated: every Generic is emitted after all Enums, Classes and
\* Directors have been fully emitted; the non-Generic entities are emitted in
\* registration order.
GenericsEmittedLast ==
    phase = "written" =>
        /\ KindBefore(EnumBlocks, GenericBlocks)
        /\ KindBefore(EntityClassBlocks, GenericBlocks)
        /\ KindBefore(DirectorBlocks, GenericBlocks)
        /\ InRegistrationOrder(EnumBlocks)
        /\ InRegistrationOrder(EntityClassBlocks)
        /\ InRegistrationOrder(DirectorBlocks)

\* C12: during the emission pass every Generic is emitted after all Enums have
\* been fully emitted and before any Class or Director is emitted; the
\* entities of one kind are emitted in registration order, the kinds in the
\* order Enums, Generics, Classes, Directors.
GenericsEmittedBeforeClasses ==
    phase = "written" =>
        /\ KindBefore(EnumBlocks, GenericBlocks)
        /\ KindBefore(GenericBlocks, EntityClassBlocks)
        /\ KindBefore(GenericBlocks, DirectorBlocks)
        /\ KindBefore(EnumBlocks, EntityClassBlocks)
        /\ KindBefore(EntityClassBlocks, DirectorBlocks)
        /\ InRegistrationOrder(EnumBlocks)
        /\ InRegistrationOrder(GenericBlocks)
        /\ InRegistrationOrder(EntityClassBlocks)
        /\ InRegistrationOrder(DirectorBlocks)

\* a written text with an entity of every kind
EntityOrderWitness ==
    /\ phase = "written"
    /\ Len(enums) >= 1 /\ Len(generics) >= 1 /\ Len(classes) >= 1 /\ Len(directors) >= 1

-----------------------------------------------------------------------------
(* Errors and the output file *)

\* the written text is whole: from the module declaration to the trailer
WholeText(text) ==
    /\ Len(text) >= 2
    /\ text[1] = Line(0, "%module(directors=1) rizin")
    /\ text[Len(text)] = Line(0, "%include <rizin_post.i>")

\* C13: every error aborts the run (no builder call and no emission follows
\* it), and whenever a run aborts no output has been created or partially
\* written: the output stays empty until a step taken after every builder call
\* succeeded writes the whole text at once.
AbortLeavesNoOutput ==
    [][ /\ phase # "aborted" /\ error.kind = ""
        /\ error'.kind # "" => phase' = "aborted" /\ output' = <<>> /\ output_rerun' = <<>>
        /\ phase' = "aborted" => error'.kind # ""
        /\ output' # <<>> => /\ phase = "register" /\ phase' = "written"
                             /\ output = <<>>
                             /\ WholeText(output') ]_vars

\* a run that aborted after a class was registered and a function was bound
AbortWitness ==
    /\ phase = "aborted"
    /\ error.kind # ""
    /\ output = <<>>
    /\ \E c \in 1..Len(classes) : classes[c].funcs # <<>>

-----------------------------------------------------------------------------
(* Directives that name parameters *)

\* the names of the parameters of the underlying function declaration
ParamNames(func) == {func.args[i].spelling : i \in 1..Len(func.args)}

\* the text s contains the text sub
Contains(s, sub) ==
    \E p \in 0..(Len(s) - Len(sub)) : SubSeq(s, p + 1, p + Len(sub)) = sub

\* the first line of the wrapper of the function the step bound
NewHead == NewlyBound[1].writer[1].text

\* the first line of the wrapper of the method the step added to the generic
NewGenericHead == generics'[last'.cls].funcs[Len(generics'[last'.cls].funcs)].writer[1].text

\* a default_args directive is rejected exactly when it names no parameter of
\* the declaration, and an accepted one puts its value on the parameter
DefaultArgsChecked(params, default_args) ==
    /\ error'.kind = "UnknownDefaultArgument" => DictKeys(default_args) \ params # {}
    /\ DictKeys(default_args) \ params # {} => error'.kind # ""
    /\ DictKeys(default_args) \subseteq params =>
          /\ error'.kind = ""
          /\ \A k \in DictKeys(default_args) :
                Contains(NewHead, k \o " = " \o DictGet(default_args, k))

\* a generic_args directive is rejected exactly when it names no parameter of
\* the declaration, and an accepted one erases the type of the parameter
GenericArgsChecked(params, generic_args) ==
    /\ error'.kind = "UnknownGenericArgument" => generic_args \ params # {}
    /\ generic_args \ params # {} => error'.kind # ""
    /\ generic_args \subseteq params =>
          /\ error'.kind = ""
          /\ \A g \in generic_args : Contains(NewGenericHead, "TYPE *" \o g)

\* C14: constructing a BoundFunction fails with UnknownGenericArgument or
\* UnknownDefaultArgument exactly when a generic_args or default_args
\* directive names a parameter that does not exist on the underlying function
\* declaration; a directive naming an existing parameter is accepted and takes
\* effect on that parameter (erased type, or default value appended).
DirectiveRejectedIffUnknown ==
    [][ /\ IsCall({"add_method", "add_func"}) =>
              DefaultArgsChecked(ParamNames(Underlying(last'.arg)), last'.default_args)
        /\ IsCall({"generic.add_method"}) =>
              GenericArgsChecked(ParamNames(Underlying(last'.arg.name)),
                                 last'.arg.generic_args) ]_vars

-----------------------------------------------------------------------------
(* Field directives *)

\* the struct a ModuleClass call names, directly or through its typedef
StructOfCall(call) == IF call.typedef # "" THEN TypedefStruct(call.typedef) ELSE call.struct

\* the call finds its struct in the header
StructFound(h, call) ==
    IF call.typedef # "" THEN call.typedef \in HeaderTypedefs(h) /\ call.struct = ""
    ELSE call.struct \in HeaderStructs(h) /\ call.rename # ""

\* the field declarations of a struct, in declaration order
FieldsOf(struct) ==
    SelectIdx(StructChildren(struct),
              {i \in 1..Len(StructChildren(struct)) :
                  StructChildren(struct)[i].kind = "FIELD_DECL"})

FieldNamesOf(struct) == {FieldsOf(struct)[i].spelling : i \in 1..Len(FieldsOf(struct))}

\* a directive of the call names a field the struct does not have
NamesUnknownField(call) ==
    (call.ignore_fields \cup DictKeys(call.rename_fields)) \ FieldNamesOf(StructOfCall(call)) # {}

\* the struct has two fields with the same name
HasDuplicateField(struct) ==
    \E i, j \in 1..Len(FieldsOf(struct)) :
        i < j /\ FieldsOf(struct)[i].spelling = FieldsOf(struct)[j].spelling

\* a field that is not ignored has the type of a registered generic
HasGenericField(maps, call) ==
    \E i \in 1..Len(FieldsOf(StructOfCall(call))) :
        /\ FieldsOf(StructOfCall(call))[i].spelling \notin call.ignore_fields
        /\ get_generic_name(maps, FieldsOf(StructOfCall(call))[i].type) \notin {"", "void"}

\* a child of the struct is neither a field nor a nested struct or union
HasUnexpectedChild(struct) ==
    \E i \in 1..Len(StructChildren(struct)) :
        StructChildren(struct)[i].kind \notin {"FIELD_DECL", "STRUCT_DECL", "UNION_DECL"}

\* the part of the claim about failing registrations
DirectiveErrors(call) ==
    /\ NamesUnknownField(call) \/ HasDuplicateField(StructOfCall(call)) => error'.kind # ""
    /\ error'.kind = "UnknownField" => NamesUnknownField(call)
    /\ error'.kind = "DuplicateField" => HasDuplicateField(StructOfCall(call))

\* C15 as stated: registering a Class fails with a fatal error when
\* ignore_fields or rename_fields names a field that is not a field of the
\* struct (UnknownField) or when the struct has two fields with the same name
\* (DuplicateField); otherwise registration succeeds.
RegistrationFailsOnlyOnDirectives ==
    [][ (IsCall({"ModuleClass"}) /\ StructFound(last'.header, last'.arg)) =>
          /\ DirectiveErrors(last'.arg)
          /\ ~(NamesUnknownField(last'.arg) \/ HasDuplicateField(StructOfCall(last'.arg)))
                => error'.kind = "" ]_vars

\* C15: registering a Class whose struct is found fails with a fatal error
\* when ignore_fields or rename_fields names a field that is not a field of
\* the struct (UnknownField) or when the struct has two fields with the same
\* name (DuplicateField); otherwise registration succeeds, unless a field that
\* is not ignored has a generic type whose annotation is rejected, or a child
\* of the struct is neither a field nor a nested struct or union.
RegistrationChecksDirectives ==
    [][ (IsCall({"ModuleClass"}) /\ StructFound(last'.header, last'.arg)) =>
          /\ DirectiveErrors(last'.arg)
          /\ ~(NamesUnknownField(last'.arg) \/ HasDuplicateField(StructOfCall(last'.arg)))
                => \/ error'.kind = ""
                   \/ /\ error'.kind \in {"MissingAnnotation", "PointerMismatch", "IndexError"}
                      /\ HasGenericField(generic_mappings, last'.arg)
                   \/ /\ error'.kind = "UnexpectedDeclarationShape"
                      /\ HasUnexpectedChild(StructOfCall(last'.arg)) ]_vars

\* a registration rejected for a rename of an unknown field, after one that succeeded
UnknownFieldWitness ==
    /\ last.op = "ModuleClass"
    /\ error.kind = "UnknownField"
    /\ last.arg.rename_fields # <<>>
    /\ Len(classes) = 2

\* the interface-level name of a field under a rename map
RenamedName(rename_fields, field) ==
    IF field \in DictKeys(rename_fields) THEN DictGet(rename_fields, field) ELSE field

\* the names of the fields the struct mirror emits
EmittedFieldNames(call) == FieldNamesOf(StructOfCall(call)) \ call.ignore_fields

\* C16: for every registered Class, the interface-level field names obtained
\* after applying rename_fields are pairwise distinct: no two fields are
\* renamed to the same name and no field is renamed to the name of another
\* emitted field of the same struct.
RenamedFieldsDistinct ==
    [][ (IsCall({"ModuleClass"}) /\ error'.kind = "") =>
          \A f1, f2 \in EmittedFieldNames(last'.arg) :
              f1 # f2 => RenamedName(last'.arg.rename_fields, f1)
                         # RenamedName(last'.arg.rename_fields, f2) ]_vars

-----------------------------------------------------------------------------
(* The annotation grammar  /\*<\s*(const\s+)?(?P<inner>[^>]+?)\s*>\*/  *)

IsSpace(s, i) == SubSeq(s, i, i) \in {" ", "\t"}

RECURSIVE SkipSpace(_)
\* the text without its leading whitespace
SkipSpace(s) == IF Len(s) > 0 /\ IsSpace(s, 1) THEN SkipSpace(SubSeq(s, 2, Len(s))) ELSE s

RECURSIVE DropSpace(_)
\* the text without its trailing whitespace
DropSpace(s) ==
    IF Len(s) > 0 /\ IsSpace(s, Len(s)) THEN DropSpace(SubSeq(s, 1, Len(s) - 1)) ELSE s

\* the text after an optional "const" that is followed by whitespace and more
SkipConst(s) ==
    IF startswith(s, "const") /\ Len(s) > 5 /\ IsSpace(s, 6)
          /\ DropSpace(SkipSpace(SubSeq(s, 6, Len(s)))) # ""
    THEN SkipSpace(SubSeq(s, 6, Len(s)))
    ELSE s

\* the inner group for the text between the brackets (for a text that is empty
\* or has a character that is not whitespace)
GrammarInner(token) == DropSpace(SkipConst(SkipSpace(SubSeq(token, 4, Len(token) - 3))))

\* the token matches the grammar
MatchesGrammar(token) ==
    /\ Len(token) >= 6
    /\ startswith(token, "/*<") /\ endswith(token, ">*/")
    /\ GrammarInner(token) # ""
    /\ ~Contains(GrammarInner(token), ">")

\* the step binds a probe function of the registered generic g
IsProbeStep(g) ==
    /\ IsCall({"add_func"})
    /\ IsProbe(last'.arg)
    /\ ProbeGeneric(last'.arg) = g
    /\ \E i \in 1..Len(generics) : generics[i].name = g

\* the inner name a use of g records for a matching token
InnerName(g, token) ==
    IF GenericDecls[g].pointer /\ endswith(GrammarInner(token), " *")
    THEN SubSeq(GrammarInner(token), 1, Len(GrammarInner(token)) - 2)
    ELSE GrammarInner(token)

\* C17: for every concrete use of a generic type, the token between the type
\* reference and the declaration's name is accepted exactly when it matches
\* the annotation grammar, the extracted inner name equals the grammar's inner
\* group, and an absent or non-matching token is a fatal MissingAnnotation
\* error.
AnnotationFollowsGrammar ==
    [][ \A g \in GenericNames : IsProbeStep(g) =>
          IF MatchesGrammar(ProbeToken(last'.arg))
          THEN /\ error'.kind # "MissingAnnotation"
               /\ ~GenericDecls[g].pointer => error'.kind = ""
               /\ error'.kind = "" =>
                     /\ InnerName(g, ProbeToken(last'.arg)) \in Specializations(generics', g)
                     /\ Contains(NewHead, g \o "_" \o InnerName(g, ProbeToken(last'.arg)) \o " ")
          ELSE error'.kind = "MissingAnnotation" ]_vars

-----------------------------------------------------------------------------
(* Specializations and the text of a generic *)

\* the lines name the specialization T of generic g as a type
UsedInText(lines, g, T) ==
    \E i \in 1..Len(lines) : Contains(lines[i].text, g \o "_" \o T \o " ")

\* every line that names a specialization of a generic of the registry names
\* one that is in the generic's set
NamesKnownSpecializations(lines, gens) ==
    \A i \in 1..Len(gens), k \in 1..Len(lines) :
        Contains(lines[k].text, gens[i].name \o "_") =>
            \E T \in gens[i].specializations :
                Contains(lines[k].text, gens[i].name \o "_" \o T \o " ")

\* the text the builder call of the step buffered: the struct mirror of the
\* class it registered, or the functions it bound
BufferedByStep ==
    IF last'.op = "ModuleClass" THEN classes'[last'.cls].struct_writer
    ELSE FuncBlocks(NewlyBound)

\* no specialization leaves a set, and no generic leaves the registry
SpecializationsKept ==
    /\ Len(generics') >= Len(generics)
    /\ \A i \in 1..Len(generics) :
          /\ generics'[i].name = generics[i].name
          /\ generics[i].specializations \subseteq generics'[i].specializations

\* the written text instantiates every specialization of every generic
InstantiatesAll(text, gens) ==
    \A i \in 1..Len(gens) : \A T \in gens[i].specializations :
        \E k \in 1..Len(text) : text[k] = Line(0, "%" \o gens[i].name \o "(" \o T \o ")")

\* C18: at the moment a Generic's text is written by Module.write, its
\* specialization set already contains every specialization used concretely
\* by a field of a registered Class or by a parameter or return value of a
\* bound function: every builder call adds the specializations its text names
\* to the sets before it returns, no set loses a member afterwards, and the
\* write instantiates the sets as they are and discovers no specialization.
SpecializationsCompleteAtWrite ==
    [][ /\ IsCall({"ModuleClass"} \cup ExplicitOps \cup PrefixedOps) =>
              NamesKnownSpecializations(BufferedByStep, generics')
        /\ SpecializationsKept
        /\ phase' = "written" => generics' = generics /\ InstantiatesAll(output', generics)
      ]_vars

\* a written text whose class uses two specializations of RzList, one in a
\* field and one in a parameter of a bound function
SpecializationsWitness ==
    /\ phase = "written"
    /\ \E c \in 1..Len(classes) :
          /\ UsedInText(classes[c].struct_writer, "RzList", "char")
          /\ UsedInText(FuncBlocks(classes[c].funcs), "RzList", "item_t")
    /\ Specializations(generics, "RzList") = {"char", "item_t"}

-----------------------------------------------------------------------------
(* The call-through argument list *)

\* the identifier a parameter goes by in the wrapper
Identifier(param) == IF param.spelling = "self" THEN "_self" ELSE param.spelling

\* the call-through argument list the claim describes for a bound function
ExpectedInner(fn) ==
    (IF fn.kind \in {"DESTRUCTOR", "THIS"} THEN << "$self" >> ELSE <<>>)
    \o [i \in 1..Len(SignatureParams(fn)) |-> Identifier(SignatureParams(fn)[i])]

\* the offset of the first occurrence of sub in s (s contains sub)
IndexOf(s, sub) ==
    CHOOSE p \in 0..(Len(s) - Len(sub)) :
        /\ SubSeq(s, p + 1, p + Len(sub)) = sub
        /\ \A q \in 0..(p - 1) : SubSeq(s, q + 1, q + Len(sub)) # sub

RECURSIVE Split(_, _)
\* s.split(sep), the empty text having no parts
Split(s, sep) ==
    IF s = "" THEN <<>>
    ELSE IF Contains(s, sep)
        THEN << SubSeq(s, 1, IndexOf(s, sep)) >>
             \o Split(SubSeq(s, IndexOf(s, sep) + Len(sep) + 1, Len(s)), sep)
    ELSE << s >>

\* the parameters of the wrapper's signature: the text between the first "("
\* and the closing ") {" of the wrapper's first line
OuterParams(head) ==
    Split(SubSeq(head, IndexOf(head, "(") + 2, Len(head) - 3), ", ")

\* a parameter declaration without its default value
WithoutDefault(decl) ==
    IF Contains(decl, " = ") THEN SubSeq(decl, 1, IndexOf(decl, " = ")) ELSE decl

\* the declaration declares the identifier: it ends with it, after a space or a "*"
Declares(decl, ident) ==
    /\ endswith(WithoutDefault(decl), ident)
    /\ Len(WithoutDefault(decl)) > Len(ident)
    /\ SubSeq(WithoutDefault(decl), Len(WithoutDefault(decl)) - Len(ident),
              Len(WithoutDefault(decl)) - Len(ident)) \in {" ", "*"}

\* the call-through statement of a wrapper: the line before the closing brace
CallThrough(fn) == fn.writer[Len(fn.writer) - 1].text

\* C19: for every BoundFunction the inner call-through argument list passes
\* the underlying function's parameters in declaration order, one identifier
\* per parameter; for instance methods and destructors the first parameter is
\* removed from the outer signature and replaced by the implicit receiver
\* prepended to the inner list, for constructors and static functions no
\* parameter is removed; a parameter named self goes by the identifier _self
\* in both the outer signature and the inner list.
InnerListPassesParams ==
    \A fn \in BoundFunctions :
        /\ endswith(CallThrough(fn),
                    fn.func \o "(" \o join(", ", ExpectedInner(fn)) \o ");")
        /\ Len(ExpectedInner(fn))
             = Len(Underlying(fn.func).args)
        /\ Len(OuterParams(fn.writer[1].text)) = Len(SignatureParams(fn))
        /\ \A i \in 1..Len(SignatureParams(fn)) :
              Declares(OuterParams(fn.writer[1].text)[i], Identifier(SignatureParams(fn)[i]))

\* a static function with a parameter named self, an instance method and a
\* destructor bound to one class
InnerListWitness ==
    \E c \in 1..Len(classes) :
        /\ \E i \in 1..Len(classes[c].funcs) :
              /\ classes[c].funcs[i].kind = "STATIC" /\ classes[c].funcs[i].func = "box_cmp"
              /\ CallThrough(classes[c].funcs[i]) = "return box_cmp(_self, other);"
        /\ \E i \in 1..Len(classes[c].funcs) : classes[c].funcs[i].kind \in {"THIS", "DESTRUCTOR"}

-----------------------------------------------------------------------------
(* What emission leaves alone *)

\* the generics are the same but for their specialization sets
SameButSpecializations(before, after) ==
    /\ Len(after) = Len(before)
    /\ \A i \in 1..Len(before) :
          /\ after[i].name = before[i].name
          /\ after[i].pointer = before[i].pointer
          /\ after[i].funcs = before[i].funcs

\* C20: once emission (Module.write) has begun, no entity is mutated: the
\* class list, each class's field text and bound-function list, each
\* function's buffered text and every header's consumed set are unchanged by
\* emission, and nothing changes after it; the only state that may change is
\* a Generic's specialization set, which only ever grows, during registration
\* as well as during emission.
EmissionMutatesNothing ==
    [][ /\ phase # "written"
        /\ phase' = "written" =>
              /\ classes' = classes
              /\ enums' = enums /\ directors' = directors
              /\ used' = used /\ headers' = headers
              /\ generic_mappings' = generic_mappings
              /\ SameButSpecializations(generics, generics')
        /\ SpecializationsKept ]_vars

\* a written text after functions were bound and consumed and two
\* specializations were discovered one after the other
EmissionWitness ==
    /\ phase = "written"
    /\ \E c \in 1..Len(classes) : Len(classes[c].funcs) >= 1
    /\ used[BoxH] # {}
    /\ Cardinality(Specializations(generics, "RzList")) = 2
    /\ output # <<>>

-----------------------------------------------------------------------------
(* Interface-level names of bound functions *)

\* no two functions of the list have the same interface-level name
NamesDistinct(funcs) ==
    \A i, j \in 1..Len(funcs) : i < j => funcs[i].name # funcs[j].name

\* C21: after any sequence of add_method, add_func, add_prefixed_methods and
\* add_prefixed_funcs calls on a Class, no two bound functions of that Class
\* have the same interface-level name, and no bulk-discovered function has an
\* empty name.
BoundNamesDistinct ==
    [][ IsCall(ExplicitOps \cup PrefixedOps) =>
          /\ NamesDistinct(classes'[last'.cls].funcs)
          /\ IsCall(PrefixedOps) =>
                \A i \in 1..Len(NewlyBound) : NewlyBound[i].name # "" ]_vars

-----------------------------------------------------------------------------
(* The build with the documentation against the build without it *)

\* the role an explicit call binds its function in
KindOf(op) ==
    IF op = "add_constructor" THEN "CONSTRUCTOR"
    ELSE IF op = "add_destructor" THEN "DESTRUCTOR"
    ELSE IF op = "add_method" THEN "THIS"
    ELSE "STATIC"

\* the two runs of a call fail together, and leave the same registry and the
\* same buffered text when they succeed: err, gens and clss are what the run
\* without the documentation gives
SameInterface(err, gens, clss) ==
    /\ (error'.kind # "") <=> (err # "")
    /\ (error'.kind = "" /\ err = "") => (generics' = gens /\ classes' = clss)

\* ModuleClass(...) without the documentation, from the state of the call
PlainClass ==
    ModuleClassInit(FALSE, generics, generic_mappings, last'.header, last'.arg.typedef,
                    last'.arg.struct, last'.arg.rename, last'.arg.ignore_fields,
                    last'.arg.rename_fields)

\* the function of an explicit call without the documentation; the name it is
\* bound under enters the text only, and is read off the function that was bound
PlainFunc ==
    IF last'.arg \in FuncNames(last'.header)
    THEN ModuleFunc(FALSE, generics, generic_mappings, FuncOf(last'.header, last'.arg),
                    KindOf(last'.op),
                    IF Len(NewlyBound) > 0 THEN NewlyBound[1].name ELSE last'.arg,
                    FALSE, {}, last'.default_args)
    ELSE Built("NotFound", "", generics, <<>>)

\* a discovery call without the documentation
PlainDiscovery ==
    PrefixedLoop(FALSE, generics, generic_mappings, HeaderFuncs(last'.header),
                 used[last'.header], last'.arg, RoleOf(last'.op),
                 classes[last'.cls].struct, classes[last'.cls].funcs)

\* ModuleGeneric.add_method without the documentation
PlainGenericFunc ==
    ModuleFunc(FALSE, generics, generic_mappings, FuncOf(last'.header, last'.arg.name),
               "THIS", last'.arg.rename, last'.arg.generic_ret, last'.arg.generic_args, <<>>)

\* the step is one builder call made while the documentation is generated
IsDocumentedCall(ops) == enable_sphinx /\ IsCall(ops)

\* C22: enabling the documentation does not change the interface side of the
\* build: every builder call of the run with the documentation fails if and
\* only if the same call from the same registry fails without it, and when both
\* succeed they leave the same Generic specialization sets and the same
\* buffered interface text (the documentation type namer adds no
\* specialization and raises no annotation error of its own).
DocumentationKeepsInterface ==
    [][ /\ IsDocumentedCall({"ModuleClass"}) =>
              SameInterface(PlainClass.err, PlainClass.gens, Append(classes, PlainClass.cls))
        /\ IsDocumentedCall(ExplicitOps) =>
              SameInterface(PlainFunc.err, PlainFunc.gens,
                            [classes EXCEPT ![last'.cls].funcs = Append(@, PlainFunc.fn)])
        /\ IsDocumentedCall(PrefixedOps) =>
              SameInterface(PlainDiscovery.err, PlainDiscovery.gens,
                            [classes EXCEPT ![last'.cls].funcs = PlainDiscovery.funcs])
        /\ IsDocumentedCall({"generic.add_method"}) =>
              SameInterface(PlainGenericFunc.err,
                            [PlainGenericFunc.gens EXCEPT
                                ![last'.cls].funcs = Append(@, PlainGenericFunc.fn)],
                            classes) ]_vars
====
